---------------------------- MODULE Spec2Model ----------------------------
(***************************************************************************)
(* Sovereign: the world-generation pipeline (terrain fields, water         *)
(* distance, rivers, biomes, resources, nation spawning) as state          *)
(* machines over small grids.                                              *)
(*                                                                         *)
(* Numbers.  The program computes on floats in [0,1].  The model keeps     *)
(* them as integers in thousandths (0.37 is 370); a product of two such    *)
(* values is kept exactly, in millionths, so every comparison of the code  *)
(* is decided exactly as on the reals.  Layers are functions over the      *)
(* flat index 0..width*height-1, as the typed arrays of the code.          *)
(***************************************************************************)
EXTENDS Integers, Sequences, FiniteSets, TLC

VARIABLES
    pc,            \* position of the run that the specification models
    terrain,       \* TerrainConfig: width, height, seaLevel
    elevation,     \* Float32Array elevation layer
    temperature,   \* Float32Array temperature layer
    humidity,      \* Float32Array humidity layer (river-boosted in the worker)
    variation,     \* Float32Array biome-noise (jitter) layer
    biomes,        \* BiomeConfig
    biomeIds,      \* Uint8Array biome id layer
    waterDistance, \* the field computeDistanceToWater returns
    baseHumidity,  \* the humidity field handed to RiverGenerator.generate
    rivers,        \* RiverConfig
    riverNoise,    \* the samples of the river noise functions, per cell
    riverMask,     \* Uint8Array river mask
    riverWidth,    \* Uint8Array river width
    resources,     \* ResourceConfig
    oreNoise,      \* oreVal of generateResources, per cell
    densityNoise,  \* densVal of generateResources, per cell
    resourceType,  \* Uint8Array resource type layer
    resourceDensity, \* Uint8Array resource density layer
    seed,          \* the world seed of the current run
    entropy,       \* what the seeded libraries (alea, simplex-noise) compute
    nationsConfig, \* defaultConfig.terrain.nations: count, minSpacing
    rng,           \* the alea generator of spawnNations
    nameGen,       \* NameGenerator: rng, usedNames
    colorGen,      \* ColorGenerator: rng, usedColors, hueOffset, index
    flagGen,       \* FlagGenerator: rng
    nations,       \* the nations spawnNations returns
    ownerMap,      \* the owner map spawnNations returns
    ownership,     \* Uint8Array ownership layer of the WorldMap
    request,       \* the TerrainWorkerRequest posted to the worker
    strategicPoints, \* StrategicData.points
    valueMap,      \* StrategicData.valueMap
    runs,          \* the requests and results of the completed runs, oldest first
    defaultConfig, \* Config.ts defaultConfig.terrain, where the run reads it
    scanned,       \* the cells a detector's scan scored, in scan order
    detector,      \* a detector's type, bucket spacing and value formula
    store,         \* useGameStore: phase, seed, worldMap, strategicPoints, nations
    views,         \* the mounts of MapView, oldest first: worker and onmessage
    tile,          \* a call of WorldMap.at: its arguments and what it returned
    simulation,    \* Simulation: running, the pending callbacks, the frames rendered
    returned       \* what the calls of a generator's generate() returned, in call order

fieldVars == <<terrain, elevation>>
biomeVars == <<temperature, variation, biomes, biomeIds>>
waterVars == <<waterDistance>>
riverVars == <<baseHumidity, rivers, riverNoise, riverMask, riverWidth>>

resourceVars == <<resources, oreNoise, densityNoise, resourceType, resourceDensity>>
generatorVars == <<rng, nameGen, colorGen, flagGen>>
nationVars == <<seed, entropy, nationsConfig, generatorVars, nations, ownerMap, ownership>>

detectorVars == <<scanned, detector>>
storeVars == <<store, views>>
uiVars == <<tile, simulation, returned>>
runVars == <<request, strategicPoints, valueMap, runs, defaultConfig,
                   detectorVars, storeVars, uiVars>>

\* The layers, generators and results of generation runs.
worldVars == <<fieldVars, humidity, biomeVars, waterVars, riverVars, resourceVars,
               nationVars, request, strategicPoints, valueMap, runs, defaultConfig,
               detectorVars>>

\* What a specification of the store alone leaves as it is.
generationVars == <<worldVars, uiVars>>

vars == <<pc, fieldVars, humidity, biomeVars, waterVars, riverVars, resourceVars,
          nationVars, runVars>>

\* A layer or object that the modelled run has not allocated (yet).
Unset == <<>>

BiomeUnset == temperature = Unset /\ variation = Unset /\ biomes = Unset /\ biomeIds = Unset
WaterUnset == waterDistance = Unset
RiverUnset ==
    /\ baseHumidity = Unset /\ rivers = Unset /\ riverNoise = Unset
    /\ riverMask = Unset /\ riverWidth = Unset
ResourceUnset ==
    /\ resources = Unset /\ oreNoise = Unset /\ densityNoise = Unset
    /\ resourceType = Unset /\ resourceDensity = Unset
NationUnset ==
    /\ seed = Unset /\ entropy = Unset /\ nationsConfig = Unset
    /\ rng = Unset /\ nameGen = Unset /\ colorGen = Unset /\ flagGen = Unset
    /\ nations = Unset /\ ownerMap = Unset /\ ownership = Unset
RunUnset ==
    /\ request = Unset /\ strategicPoints = Unset /\ valueMap = Unset
    /\ runs = Unset /\ defaultConfig = Unset
    /\ scanned = Unset /\ detector = Unset /\ store = Unset /\ views = Unset
    /\ tile = Unset /\ simulation = Unset /\ returned = Unset

\* A layer, computed once in full: comparing it makes TLC build the whole array
\* where it would otherwise recompute a cell at every read.
Layer(f) == LET layer == f IN IF layer = layer THEN layer ELSE layer

Abs(n) == IF n < 0 THEN -n ELSE n
Min(a, b) == IF a < b THEN a ELSE b
Max(a, b) == IF a > b THEN a ELSE b

(***************************************************************************)
(* biomes.ts                                                               *)
(***************************************************************************)

BIOME_KEYS ==
    << "deep_ocean", "ocean", "shore", "polar_desert", "glacier", "tundra",
       "alpine", "boreal_forest", "taiga", "cold_steppe", "temperate_desert",
       "steppe", "grassland", "woodland", "temperate_forest", "chaparral",
       "swamp", "desert", "badlands", "savanna", "tropical_forest",
       "rainforest", "wetland", "mangrove", "highland", "mountain" >>

\* BIOME_INDEX built with the position counted from 1.
BIOME_INDEX_OneBased(key) ==
    IF \E i \in 1..Len(BIOME_KEYS) : BIOME_KEYS[i] = key
    THEN CHOOSE i \in 1..Len(BIOME_KEYS) : BIOME_KEYS[i] = key
    ELSE 0

\* BIOME_INDEX[key] as a Uint8Array store leaves it in the layer: the position
\* of key in BIOME_KEYS counted from 0; a key that is no property of
\* BIOME_INDEX reads as undefined, which stores as 0.
BIOME_INDEX(key) ==
    IF \E i \in 1..Len(BIOME_KEYS) : BIOME_KEYS[i] = key
    THEN (CHOOSE i \in 1..Len(BIOME_KEYS) : BIOME_KEYS[i] = key) - 1
    ELSE 0

\* clamp01 on a value in millionths.
clamp01(value) == Min(1000000, Max(0, value))

\* No gate of the classifier matched.
NoBiome == ""

\* The water and shore gates.  seaLevel * deepOceanFactor is in millionths.
waterGate_NoShoreBand(elev, seaLevel, config) ==
    IF elev < seaLevel
    THEN (IF elev * 1000 < seaLevel * config.deepOceanFactor
          THEN "deep_ocean" ELSE "ocean")
    ELSE NoBiome

waterGate(elev, seaLevel, config) ==
    IF elev < seaLevel
    THEN (IF elev * 1000 < seaLevel * config.deepOceanFactor
          THEN "deep_ocean" ELSE "ocean")
    ELSE IF elev < seaLevel + config.shoreBand THEN "shore"
    ELSE NoBiome

\* The high-elevation gates; temp is the jittered temperature in millionths.
highGate(elev, temp, config) ==
    IF elev > config.mountainElevation THEN "mountain"
    ELSE IF elev > config.alpineElevation /\ temp < 450000 THEN "alpine"
    ELSE IF elev > config.highlandElevation THEN "highland"
    ELSE NoBiome

\* The temperature x humidity decision tree with every '<' turned into '<='.
landBiome_Le(elev, temp, humid, seaLevel, config) ==
    IF temp <= 200000 THEN
        IF humid <= 250000 THEN "polar_desert"
        ELSE IF humid <= 550000 THEN "tundra"
        ELSE IF humid <= 800000 THEN "taiga"
        ELSE IF elev > config.highlandElevation THEN "glacier"
        ELSE "tundra"
    ELSE IF temp <= 400000 THEN
        IF humid <= 200000 THEN "cold_steppe"
        ELSE IF humid <= 450000 THEN "taiga"
        ELSE IF humid <= 700000 THEN "boreal_forest"
        ELSE "swamp"
    ELSE IF temp <= 700000 THEN
        IF humid <= 180000 THEN "temperate_desert"
        ELSE IF humid <= 320000 THEN "steppe"
        ELSE IF humid <= 500000 THEN "grassland"
        ELSE IF humid <= 680000 THEN "woodland"
        ELSE IF humid <= 820000 THEN "temperate_forest"
        ELSE IF elev < seaLevel + 50 THEN "swamp"
        ELSE "wetland"
    ELSE
        IF humid <= 180000 THEN "desert"
        ELSE IF humid <= 300000 THEN "badlands"
        ELSE IF humid <= 450000 THEN "savanna"
        ELSE IF humid <= 600000 THEN "chaparral"
        ELSE IF humid <= 780000 THEN "tropical_forest"
        ELSE IF humid <= 900000 THEN "rainforest"
        ELSE "mangrove"

\* The temperature x humidity decision tree (polar, cool, temperate, tropical).
landBiome(elev, temp, humid, seaLevel, config) ==
    IF temp < 200000 THEN
        IF humid < 250000 THEN "polar_desert"
        ELSE IF humid < 550000 THEN "tundra"
        ELSE IF humid < 800000 THEN "taiga"
        ELSE IF elev > config.highlandElevation THEN "glacier"
        ELSE "tundra"
    ELSE IF temp < 400000 THEN
        IF humid < 200000 THEN "cold_steppe"
        ELSE IF humid < 450000 THEN "taiga"
        ELSE IF humid < 700000 THEN "boreal_forest"
        ELSE "swamp"
    ELSE IF temp < 700000 THEN
        IF humid < 180000 THEN "temperate_desert"
        ELSE IF humid < 320000 THEN "steppe"
        ELSE IF humid < 500000 THEN "grassland"
        ELSE IF humid < 680000 THEN "woodland"
        ELSE IF humid < 820000 THEN "temperate_forest"
        ELSE IF elev < seaLevel + 50 THEN "swamp"
        ELSE "wetland"
    ELSE
        IF humid < 180000 THEN "desert"
        ELSE IF humid < 300000 THEN "badlands"
        ELSE IF humid < 450000 THEN "savanna"
        ELSE IF humid < 600000 THEN "chaparral"
        ELSE IF humid < 780000 THEN "tropical_forest"
        ELSE IF humid < 900000 THEN "rainforest"
        ELSE "mangrove"

\* The jittered temperature and humidity of determineBiome, in millionths.
jitteredTemp(temp, v, config) == clamp01(temp * 1000 + (v - 500) * config.tempJitter)
jitteredHumid(humid, v, config) == clamp01(humid * 1000 + (v - 500) * config.humidityJitter)

determineBiome(elev, temp, humid, v, seaLevel, config) ==
    LET t == jitteredTemp(temp, v, config)
        h == jitteredHumid(humid, v, config)
        water == waterGate(elev, seaLevel, config)
        high == highGate(elev, t, config)
    IN  IF water # NoBiome THEN water
        ELSE IF high # NoBiome THEN high
        ELSE landBiome(elev, t, h, seaLevel, config)

\* buildBiomeMap: the biomeIds layer (the ImageData it also paints is not modelled).
buildBiomeMap(elev, temp, humid, v, width, height, seaLevel, config) ==
    [i \in 0..(width * height - 1) |->
        BIOME_INDEX(determineBiome(elev[i], temp[i], humid[i], v[i], seaLevel, config))]

(***************************************************************************)
(* Biome classification on its own: buildBiomeMap applied to a small map   *)
(* whose first cell probes the thresholds of the classifier.               *)
(***************************************************************************)

\* Number of cells of the map (one row).
BiomeCells == 2

\* defaultConfig.terrain.biomes, and a second configuration with other
\* thresholds and jitter magnitudes.
DefaultBiomes ==
    [shoreBand |-> 8, deepOceanFactor |-> 550, mountainElevation |-> 850,
     highlandElevation |-> 740, alpineElevation |-> 780,
     tempJitter |-> 100, humidityJitter |-> 100]

OtherBiomes ==
    [shoreBand |-> 1, deepOceanFactor |-> 500, mountainElevation |-> 900,
     highlandElevation |-> 700, alpineElevation |-> 600,
     tempJitter |-> 0, humidityJitter |-> 200]

BiomeScenarios ==
    { [seaLevel |-> 370, config |-> DefaultBiomes],
      [seaLevel |-> 500, config |-> OtherBiomes],
      [seaLevel |-> 0, config |-> DefaultBiomes] }

ElevationProbes ==
    { 0, 7, 8, 203, 204, 250, 369, 370, 377, 378, 419, 420, 499, 500, 501, 549, 550,
      600, 601, 700, 701, 740, 741, 780, 781, 850, 851, 900, 901, 1000 }
TemperatureProbes == { 0, 150, 200, 400, 449, 450, 700, 750, 1000 }
HumidityProbes ==
    { 0, 130, 150, 180, 200, 250, 300, 320, 450, 500, 550, 600, 680, 700, 780, 800,
      820, 900, 950, 1000 }
VariationProbes == { 0, 500, 1000 }

\* The cells after the first: a water cell exactly at sea level (hot, wet) or a
\* cold dry land cell a little above the shore band.
FillerCell(kind, seaLevel) ==
    IF kind = "water"
    THEN [e |-> seaLevel, t |-> 1000, h |-> 1000, v |-> 500]
    ELSE [e |-> seaLevel + 100, t |-> 0, h |-> 0, v |-> 500]

InitBiome ==
    \E sc \in BiomeScenarios, e0 \in ElevationProbes, t0 \in TemperatureProbes,
       h0 \in HumidityProbes, v0 \in VariationProbes,
       fill \in [1..(BiomeCells - 1) -> {"water", "land"}] :
        LET cell(i) == IF i = 0 THEN [e |-> e0, t |-> t0, h |-> h0, v |-> v0]
                       ELSE FillerCell(fill[i], sc.seaLevel)
            idx == 0..(BiomeCells - 1)
        IN  /\ pc = "biomes"
            /\ terrain = [width |-> BiomeCells, height |-> 1, seaLevel |-> sc.seaLevel]
            /\ biomes = sc.config
            /\ elevation = [i \in idx |-> cell(i).e]
            /\ temperature = [i \in idx |-> cell(i).t]
            /\ humidity = [i \in idx |-> cell(i).h]
            /\ variation = [i \in idx |-> cell(i).v]
            /\ biomeIds = Unset
            /\ WaterUnset /\ RiverUnset /\ ResourceUnset /\ NationUnset /\ RunUnset

\* The worker's call of buildBiomeMap.
BuildBiomeMap ==
    /\ pc = "biomes"
    /\ biomeIds' = buildBiomeMap(elevation, temperature, humidity, variation,
                                 terrain.width, terrain.height, terrain.seaLevel, biomes)
    /\ pc' = "done"
    /\ UNCHANGED <<fieldVars, temperature, humidity, variation, biomes, waterVars,
                   riverVars, resourceVars, nationVars, runVars>>

NextBiome == BuildBiomeMap

SpecBiome == InitBiome /\ [][NextBiome]_vars

Cells == 0..(terrain.width * terrain.height - 1)

\* The key determineBiome returns for cell i of the current layers.
KeyAt(i) ==
    determineBiome(elevation[i], temperature[i], humidity[i], variation[i],
                   terrain.seaLevel, biomes)

BiomeKeySet == { BIOME_KEYS[k] : k \in 1..Len(BIOME_KEYS) }

\* C8: determineBiome is total: for every input it returns one of the 26 keys
\* of BIOME_KEYS, and buildBiomeMap writes that key's id, a number in 0..25
\* that reads back as the same key.
C8_BiomeIdsInRange ==
    pc = "done" =>
        \A i \in Cells :
            /\ KeyAt(i) \in BiomeKeySet
            /\ biomeIds[i] \in 0..25
            /\ BIOME_KEYS[biomeIds[i] + 1] = KeyAt(i)

\* A mountain cell (the last key, id 25) and a shore cell were written.
C8_Witness ==
    /\ pc = "done"
    /\ biomeIds[0] = 25
    /\ KeyAt(0) = "mountain"
    /\ \E i \in Cells : biomeIds[i] = 2

\* The leaves of the cool, temperate and tropical bands of the decision tree.
CoolLeaves == { "cold_steppe", "taiga", "boreal_forest", "swamp" }
TemperateLeaves ==
    { "temperate_desert", "steppe", "grassland", "woodland", "temperate_forest",
      "swamp", "wetland" }
TropicalLeaves ==
    { "desert", "badlands", "savanna", "chaparral", "tropical_forest", "rainforest",
      "mangrove" }

\* The humidity thresholds (millionths) of the band a jittered temperature is in.
HumidityThresholds(t) ==
    IF t < 200000 THEN { 250000, 550000, 800000 }
    ELSE IF t < 400000 THEN { 200000, 450000, 700000 }
    ELSE IF t < 700000 THEN { 180000, 320000, 500000, 680000, 820000 }
    ELSE { 180000, 300000, 450000, 600000, 780000, 900000 }

\* Cell i falls through the water, shore and high-elevation gates.
ReachesTree(i) ==
    /\ waterGate(elevation[i], terrain.seaLevel, biomes) = NoBiome
    /\ highGate(elevation[i], jitteredTemp(temperature[i], variation[i], biomes), biomes)
           = NoBiome

\* C9: a value equal to a threshold falls into the band above it.  A cell whose
\* elevation equals seaLevel is shore; a cell that reaches the decision tree
\* with a jittered temperature of exactly 0.2, 0.4 or 0.7 gets a leaf of the
\* cool, temperate or tropical band, the one a slightly higher temperature
\* gets; with a jittered humidity equal to a threshold of its band it gets the
\* leaf a slightly higher humidity gets, not the one a slightly lower gets.
C9_ThresholdsFallInBandAbove ==
    pc = "done" =>
        \A i \in Cells :
            LET t == jitteredTemp(temperature[i], variation[i], biomes)
                h == jitteredHumid(humidity[i], variation[i], biomes)
                e == elevation[i]
                key == BIOME_KEYS[biomeIds[i] + 1]
                above(tt, hh) == landBiome(e, tt, hh, terrain.seaLevel, biomes)
            IN  /\ (e = terrain.seaLevel /\ biomes.shoreBand > 0) => key = "shore"
                /\ (ReachesTree(i) /\ t = 200000) => key \in CoolLeaves
                /\ (ReachesTree(i) /\ t = 400000) => key \in TemperateLeaves
                /\ (ReachesTree(i) /\ t = 700000) => key \in TropicalLeaves
                /\ (ReachesTree(i) /\ t \in {200000, 400000, 700000})
                       => key = above(t + 1, h)
                /\ (ReachesTree(i) /\ h \in HumidityThresholds(t))
                       => key = above(t, h + 1) /\ key # above(t, h - 1)

\* A cell reached the tree with jittered temperature exactly 0.2 (0.15 plus a
\* jitter of 0.05) and jittered humidity exactly 0.2, and was classified taiga.
C9_Witness ==
    /\ pc = "done"
    /\ ReachesTree(0)
    /\ temperature[0] = 150
    /\ jitteredTemp(temperature[0], variation[0], biomes) = 200000
    /\ jitteredHumid(humidity[0], variation[0], biomes) = 200000
    /\ biomeIds[0] = 8
    /\ \E i \in Cells : elevation[i] = terrain.seaLevel /\ biomeIds[i] = 2

(***************************************************************************)
(* TerrainGenerator.computeDistanceToWater                                 *)
(***************************************************************************)

\* The queue after the seeding loop: every cell with elevation <= seaLevel, in
\* index order.
seedQueue(elev, size, seaLevel) ==
    LET water(i) == elev[i] <= seaLevel
    IN  SelectSeq([k \in 1..size |-> k - 1], water)

\* The neighbour cells without the checks that keep a step inside its row.
neighbours_NoRowCheck(idx, width, height) ==
    LET x == idx % width
        y == (idx - x) \div width
    IN  (IF idx + 1 < width * height THEN <<idx + 1>> ELSE <<>>)
        \o (IF idx - 1 >= 0 THEN <<idx - 1>> ELSE <<>>)
        \o (IF y + 1 < height THEN <<idx + width>> ELSE <<>>)
        \o (IF y - 1 >= 0 THEN <<idx - width>> ELSE <<>>)

\* The neighbour cells the loop body looks at, in its order: right, left,
\* down, up, each only when it is inside the grid.
neighbours(idx, width, height) ==
    LET x == idx % width
        y == (idx - x) \div width
    IN  (IF x + 1 < width THEN <<idx + 1>> ELSE <<>>)
        \o (IF x - 1 >= 0 THEN <<idx - 1>> ELSE <<>>)
        \o (IF y + 1 < height THEN <<idx + width>> ELSE <<>>)
        \o (IF y - 1 >= 0 THEN <<idx - width>> ELSE <<>>)

\* One pass over the neighbours ns of a dequeued cell at the given distance:
\* each one still at -1 gets distance + 1 and joins the queue.
RECURSIVE visit(_, _, _, _)
visit(st, ns, k, distance) ==
    IF k > Len(ns) THEN st
    ELSE IF st.distances[ns[k]] = -1
         THEN visit([distances |-> [st.distances EXCEPT ![ns[k]] = distance + 1],
                     queue |-> Append(st.queue, ns[k])],
                    ns, k + 1, distance)
         ELSE visit(st, ns, k + 1, distance)

\* The rounds of the while (head < tail) loop that dequeue the positions
\* lo..hi of the queue (counted from 0), in this order.
RECURSIVE drain(_, _, _, _, _)
drain(st, lo, hi, width, height) ==
    IF lo > hi THEN st
    ELSE IF lo = hi
    THEN LET idx == st.queue[lo + 1]
         IN  visit(st, neighbours(idx, width, height), 1, st.distances[idx])
    ELSE LET mid == (lo + hi) \div 2
             lower == drain(st, lo, mid, width, height)
         IN  IF lower = lower THEN drain(lower, mid + 1, hi, width, height) ELSE lower

\* The while (head < tail) loop from head on; head counts from 0, tail is
\* Len(queue).
RECURSIVE bfs(_, _, _, _)
bfs(st, head, width, height) ==
    IF head >= Len(st.queue) THEN st.distances
    ELSE LET queued == drain(st, head, Len(st.queue) - 1, width, height)
         IN  IF queued = queued THEN bfs(queued, Len(st.queue), width, height)
             ELSE st.distances

\* maxDistance after its loop, which starts from 1.
maxOver(distances, size) ==
    LET reached == { distances[i] : i \in 0..(size - 1) } \cup {1}
    IN  CHOOSE m \in reached : \A d \in reached : d <= m

\* The normalised field, kept exactly: cell i has the value num[i] / den.
computeDistanceToWater(elev, width, height, seaLevel) ==
    LET size == width * height
        queue == seedQueue(elev, size, seaLevel)
        seeded == [i \in 0..(size - 1) |-> IF elev[i] <= seaLevel THEN 0 ELSE -1]
        distances == bfs([distances |-> seeded, queue |-> queue], 0, width, height)
        maxDistance == maxOver(distances, size)
    IN  [num |-> [i \in 0..(size - 1) |-> IF distances[i] <= 0 THEN 0 ELSE distances[i]],
         den |-> maxDistance]

(***************************************************************************)
(* The water-distance transform on its own, on every land/water pattern    *)
(* of a small grid.                                                        *)
(***************************************************************************)

WaterW == 3
WaterH == 3

\* A water cell lies exactly at sea level, a land cell just above it.
WaterSeaLevel == 370
WaterElevations == { WaterSeaLevel, WaterSeaLevel + 1 }

InitWater ==
    /\ pc = "waterDistance"
    /\ terrain = [width |-> WaterW, height |-> WaterH, seaLevel |-> WaterSeaLevel]
    /\ elevation \in [0..(WaterW * WaterH - 1) -> WaterElevations]
    /\ waterDistance = Unset
    /\ humidity = Unset /\ BiomeUnset /\ RiverUnset /\ ResourceUnset /\ NationUnset /\ RunUnset

\* The worker's call of computeDistanceToWater.
ComputeDistanceToWater ==
    /\ pc = "waterDistance"
    /\ waterDistance' = computeDistanceToWater(elevation, terrain.width, terrain.height,
                                                terrain.seaLevel)
    /\ pc' = "done"
    /\ UNCHANGED <<fieldVars, humidity, biomeVars, riverVars, resourceVars, nationVars, runVars>>

NextWater == ComputeDistanceToWater

SpecWater == InitWater /\ [][NextWater]_vars

IsWater(i) == elevation[i] <= terrain.seaLevel

\* Length of the shortest 4-connected path between two cells of the full grid.
Steps(i, j) ==
    Abs((i % terrain.width) - (j % terrain.width))
        + Abs((i \div terrain.width) - (j \div terrain.width))

\* Steps from cell i to the nearest water cell (there is one).
StepsToWater(i) ==
    LET ds == { Steps(i, w) : w \in { c \in Cells : IsWater(c) } }
    IN  CHOOSE d \in ds : \A e \in ds : d <= e

\* The cells orthogonally adjacent to cell i.
AdjacentCells(i) ==
    { j \in { i - 1, i + 1, i - terrain.width, i + terrain.width } \cap Cells :
        Steps(i, j) = 1 }

\* C2: on a map with a water cell, computeDistanceToWater gives 0 to every
\* water cell and d/max to every other cell, d the length of the shortest
\* 4-connected path to the nearest water cell and max the largest d of the
\* map; every value lies in [0,1], adjacent cells differ by at most one step,
\* and every cell at d > 0 has a neighbour at d - 1 (the value never decreases
\* along a shortest path away from the shore).
C2_WaterDistance ==
    (pc = "done" /\ \E w \in Cells : IsWater(w)) =>
        LET num == waterDistance.num
            den == waterDistance.den
            steps == [i \in Cells |-> StepsToWater(i)]
        IN  /\ \A i \in Cells : IsWater(i) => num[i] = 0
            /\ num = steps
            /\ (\E i \in Cells : ~IsWater(i))
                   => /\ \E i \in Cells : den = steps[i]
                      /\ \A j \in Cells : steps[j] <= den
            /\ \A i \in Cells : 0 <= num[i] /\ num[i] <= den
            /\ \A i \in Cells : \A j \in AdjacentCells(i) : Abs(num[i] - num[j]) <= 1
            /\ \A i \in Cells : num[i] > 0
                   => \E j \in AdjacentCells(i) : num[j] = num[i] - 1

\* The only water cell is a corner, so the opposite corner is the farthest
\* cell, at the largest distance a grid of this size has.
C2_Witness ==
    /\ pc = "done"
    /\ IsWater(0)
    /\ \A i \in Cells : i # 0 => ~IsWater(i)
    /\ waterDistance.den = terrain.width + terrain.height - 2
    /\ waterDistance.num[terrain.width * terrain.height - 1] = waterDistance.den

(***************************************************************************)
(* RiverGenerator (rivers.ts).  The simplex noise functions are a library; *)
(* their samples at each cell are inputs of the model (riverNoise): p and  *)
(* s are the absolute primary and secondary samples, wn the width noise.   *)
(* Quotients are rounded down to thousandths.                              *)
(***************************************************************************)

\* defaultConfig.terrain.rivers (the fields generate reads after sampling).
DefaultRivers ==
    [primaryThreshold |-> 32, secondaryThreshold |-> 20, primaryWidth |-> 4,
     secondaryWidth |-> 2, humidityBoost |-> 180, humidityRadius |-> 3,
     mountainCutoff |-> 820, shoreTaper |-> 100]

\* (elev - seaLevel) / (1 - seaLevel), in thousandths.
landRatio(elev, seaLevel) == ((elev - seaLevel) * 1000) \div (1000 - seaLevel)

\* shoreFade * mountainFade of a land cell, in thousandths.
fade(elev, seaLevel, config) ==
    LET lr == landRatio(elev, seaLevel)
        shoreFade == Min(1000, (lr * 1000) \div config.shoreTaper)
        mountainFade ==
            IF lr > config.mountainCutoff
            THEN Max(0, 1000 - ((lr - config.mountainCutoff) * 1000) \div 150)
            ELSE 1000
    IN  (shoreFade * mountainFade) \div 1000

\* p < primaryThreshold * fade (both sides in millionths).
isPrimary(elev, seaLevel, config, p) ==
    p * 1000 < config.primaryThreshold * fade(elev, seaLevel, config)

isSecondary(elev, seaLevel, config, p, s) ==
    /\ s * 1000 < config.secondaryThreshold * fade(elev, seaLevel, config)
    /\ ~isPrimary(elev, seaLevel, config, p)

\* Math.ceil(a / b) for a >= 0, b > 0.
Ceil(a, b) == (a + b - 1) \div b

\* The width written for a river cell: sample is p or s, threshold and maxWidth
\* the primary or secondary ones, least the floor of Math.max (2 or 1).
cellWidth(elev, seaLevel, config, sample, threshold, maxWidth, least, wn) ==
    LET widthVar == (((wn * 500) \div 1000 + 500) * 400) \div 1000 + 800
        denom == Max(1000, threshold * fade(elev, seaLevel, config))
        t == 1000 - (sample * 1000 * 1000) \div denom
    IN  Max(least, Ceil(maxWidth * t * widthVar, 1000 * 1000)) % 256

\* The marking loop of generate: the mask and the widths before the cleanup.
markRivers(elev, terr, config, noise) ==
    LET size == terr.width * terr.height
        prim(i) == elev[i] > terr.seaLevel
                   /\ isPrimary(elev[i], terr.seaLevel, config, noise.p[i])
        sec(i) == elev[i] > terr.seaLevel
                  /\ isSecondary(elev[i], terr.seaLevel, config, noise.p[i], noise.s[i])
    IN  [mask |-> Layer([i \in 0..(size - 1) |-> IF prim(i) \/ sec(i) THEN 1 ELSE 0]),
         width |-> [i \in 0..(size - 1) |->
                      IF prim(i)
                      THEN cellWidth(elev[i], terr.seaLevel, config, noise.p[i],
                                     config.primaryThreshold, config.primaryWidth, 2,
                                     noise.wn[i])
                      ELSE IF sec(i)
                      THEN cellWidth(elev[i], terr.seaLevel, config, noise.s[i],
                                     config.secondaryThreshold, config.secondaryWidth, 1,
                                     noise.wn[i])
                      ELSE 0]]

\* The neighbour count of removeSpeckles at an interior cell.
riverNeighbors(mask, index, width) ==
    (IF mask[index - 1] # 0 THEN 1 ELSE 0) + (IF mask[index + 1] # 0 THEN 1 ELSE 0)
    + (IF mask[index - width] # 0 THEN 1 ELSE 0)
    + (IF mask[index + width] # 0 THEN 1 ELSE 0)

\* removeSpeckles keeping every cell that has at least one neighbour.
toRemove_MinOne(mask, width, height) ==
    { index \in 0..(width * height - 1) :
        LET x == index % width
            y == index \div width
        IN  /\ 1 <= y /\ y < height - 1 /\ 1 <= x /\ x < width - 1
            /\ mask[index] # 0
            /\ riverNeighbors(mask, index, width) < 1 }

\* The cells removeSpeckles collects: the flagged cells of rows 1..height-2 and
\* columns 1..width-2 with fewer than minNeighbors = 2 flagged neighbours, all
\* counted on the mask as it is before any removal.
toRemove(mask, width, height) ==
    { index \in 0..(width * height - 1) :
        LET x == index % width
            y == index \div width
        IN  /\ 1 <= y /\ y < height - 1 /\ 1 <= x /\ x < width - 1
            /\ mask[index] # 0
            /\ riverNeighbors(mask, index, width) < 2 }

removeSpeckles(marked, width, height) ==
    LET gone == toRemove(marked.mask, width, height)
    IN  [mask |-> Layer([i \in DOMAIN marked.mask |->
                            IF i \in gone THEN 0 ELSE marked.mask[i]]),
         width |-> Layer([i \in DOMAIN marked.width |->
                             IF i \in gone THEN 0 ELSE marked.width[i]])]

\* Math.sqrt of the squared distances that occur within a radius of 3 or 4,
\* in thousandths, rounded down.
sqrtMilli(distSq) ==
    CASE distSq = 0 -> 0 [] distSq = 1 -> 1000 [] distSq = 2 -> 1414
      [] distSq = 4 -> 2000 [] distSq = 5 -> 2236 [] distSq = 8 -> 2828
      [] distSq = 9 -> 3000 [] distSq = 10 -> 3162 [] distSq = 13 -> 3605
      [] distSq = 16 -> 4000

\* humidityBoost * (1 - dist / (radius + 0.01)), in thousandths.
boostAt(config, distSq) ==
    LET reach == config.humidityRadius * 1000 + 10
    IN  (config.humidityBoost * (reach - sqrtMilli(distSq))) \div reach

\* The body of applyHumidityBoost for one river cell with += in place of max.
boostFrom_Stacking(boosted, humid, cell, terr, config) ==
    LET x == cell % terr.width
        y == cell \div terr.width
        radius == config.humidityRadius
    IN  Layer([target \in DOMAIN boosted |->
            LET ox == (target % terr.width) - x
                oy == (target \div terr.width) - y
                distSq == ox * ox + oy * oy
            IN  IF Abs(ox) <= radius /\ Abs(oy) <= radius /\ distSq <= radius * radius
                THEN Min(1000, boosted[target] + boostAt(config, distSq))
                ELSE boosted[target]])

\* The body of applyHumidityBoost for one river cell: every cell within the
\* radius is raised to min(1, max(its value so far, its input + boost)).
boostFrom(boosted, humid, cell, terr, config) ==
    LET x == cell % terr.width
        y == cell \div terr.width
        radius == config.humidityRadius
    IN  Layer([target \in DOMAIN boosted |->
            LET ox == (target % terr.width) - x
                oy == (target \div terr.width) - y
                distSq == ox * ox + oy * oy
            IN  IF Abs(ox) <= radius /\ Abs(oy) <= radius /\ distSq <= radius * radius
                THEN Min(1000, Max(boosted[target], humid[target] + boostAt(config, distSq)))
                ELSE boosted[target]])

\* The rounds of the loop of applyHumidityBoost on the cells lo..hi.
RECURSIVE boostLoop(_, _, _, _, _, _, _)
boostLoop(boosted, humid, mask, terr, config, lo, hi) ==
    IF lo > hi THEN boosted
    ELSE IF lo = hi
    THEN IF mask[lo] = 0 THEN boosted ELSE boostFrom(boosted, humid, lo, terr, config)
    ELSE LET mid == (lo + hi) \div 2
             lower == boostLoop(boosted, humid, mask, terr, config, lo, mid)
         IN  IF lower = lower
             THEN boostLoop(lower, humid, mask, terr, config, mid + 1, hi)
             ELSE lower

applyHumidityBoost(humid, mask, terr, config) ==
    boostLoop(humid, humid, mask, terr, config, 0, terr.width * terr.height - 1)

\* RiverGenerator.generate: riverMask, riverWidth and the boosted humidity.
generateRivers(elev, humid, terr, config, noise) ==
    LET cleaned == removeSpeckles(markRivers(elev, terr, config, noise),
                                  terr.width, terr.height)
    IN  [riverMask |-> cleaned.mask,
         riverWidth |-> cleaned.width,
         humidity |-> applyHumidityBoost(humid, cleaned.mask, terr, config)]

(***************************************************************************)
(* RiverGenerator.generate on its own, on every pattern of a small grid    *)
(* that has up to MaxRiverCells cells on the primary zero-crossing.        *)
(***************************************************************************)

RiverW == 4
MaxRiverCells == 4
\* Three rows: the least height with an interior row.
RiverSize == [width |-> RiverW, height |-> 3]
RiverCells == 0..(RiverSize.width * RiverSize.height - 1)

\* The maps and secondary-noise fields the patterns are laid on: all land; a
\* first row of water; all land with a summit (where rivers fade out) and a
\* last column on the zero-crossing of the secondary noise.
RiverScenarios == { "land", "waterRow", "summit" }

RiverElevation(sc) ==
    [i \in RiverCells |->
        IF sc = "waterRow" /\ i < RiverSize.width THEN 370
        ELSE IF sc = "summit" /\ i = 0 THEN 990
        ELSE 600]

RiverSecondary(sc) ==
    [i \in RiverCells |->
        IF sc = "summit" /\ i % RiverSize.width = RiverSize.width - 1 THEN 0 ELSE 500]

InitRiver ==
    \E sc \in RiverScenarios,
       on \in { S \in SUBSET RiverCells : Cardinality(S) <= MaxRiverCells } :
        /\ pc = "rivers"
        /\ terrain = [width |-> RiverSize.width, height |-> RiverSize.height,
                      seaLevel |-> 370]
        /\ elevation = RiverElevation(sc)
        /\ baseHumidity = [i \in RiverCells |-> 300 + 100 * (i % 3)]
        /\ rivers = DefaultRivers
        /\ riverNoise = [p |-> [i \in RiverCells |-> IF i \in on THEN 0 ELSE 500],
                         s |-> RiverSecondary(sc),
                         wn |-> [i \in RiverCells |-> ((i % 3) - 1) * 1000]]
        /\ riverMask = Unset /\ riverWidth = Unset /\ humidity = Unset
        /\ BiomeUnset /\ WaterUnset /\ ResourceUnset /\ NationUnset /\ RunUnset

\* The worker's call of RiverGenerator.generate.
GenerateRivers ==
    /\ pc = "rivers"
    /\ LET data == generateRivers(elevation, baseHumidity, terrain, rivers, riverNoise)
       IN  /\ riverMask' = data.riverMask
           /\ riverWidth' = data.riverWidth
           /\ humidity' = data.humidity
    /\ pc' = "done"
    /\ UNCHANGED <<fieldVars, biomeVars, waterVars, baseHumidity, rivers, riverNoise,
                   resourceVars, nationVars, runVars>>

NextRiver == GenerateRivers

SpecRiver == InitRiver /\ [][NextRiver]_vars

\* Number of orthogonally adjacent cells of i that mask flags.
FlaggedAround(mask, i) == Cardinality({ j \in AdjacentCells(i) : mask[j] # 0 })

\* Cell i is in none of the first and last rows and columns.
Interior(i) ==
    /\ 1 <= i % terrain.width /\ i % terrain.width < terrain.width - 1
    /\ 1 <= i \div terrain.width /\ i \div terrain.width < terrain.height - 1

\* The mask of the current inputs as it is before the speckle-removal pass.
RawMask == markRivers(elevation, terrain, rivers, riverNoise).mask

ResourceType ==
    [None |-> 0, Timber |-> 1, Stone |-> 2, Iron |-> 3, Gold |-> 4, Fertile |-> 5,
     Fish |-> 6, Fur |-> 7]

\* The null of BIOME_RESOURCE (and the undefined of a missing key).
NoResource == -1

\* BIOME_RESOURCE[biome], the entries in the order of the biome ids 0..25.
BIOME_RESOURCE(biome) ==
    LET table ==
            << NoResource, NoResource, NoResource, NoResource, NoResource, NoResource,
               ResourceType.Stone, ResourceType.Timber, ResourceType.Fur, NoResource,
               NoResource, ResourceType.Fertile, ResourceType.Fertile,
               ResourceType.Timber, ResourceType.Timber, NoResource, NoResource,
               NoResource, ResourceType.Stone, ResourceType.Fertile,
               ResourceType.Timber, ResourceType.Timber, ResourceType.Fertile,
               NoResource, ResourceType.Stone, ResourceType.Stone >>
    IN  IF biome \in 0..25 THEN table[biome + 1] ELSE NoResource

\* Math.round(a / b) for b > 0.
RoundDiv(a, b) == (2 * a + b) \div (2 * b)

\* The nearWater layer: every water cell marks its land neighbours.
nearWater(elev, width, height, seaLevel) ==
    LET marks(i) ==
            LET x == i % width
                y == i \div width
            IN  IF elev[i] > seaLevel THEN {}
                ELSE (IF x > 0 /\ elev[i - 1] > seaLevel THEN {i - 1} ELSE {})
                     \cup (IF x < width - 1 /\ elev[i + 1] > seaLevel THEN {i + 1} ELSE {})
                     \cup (IF y > 0 /\ elev[i - width] > seaLevel THEN {i - width} ELSE {})
                     \cup (IF y < height - 1 /\ elev[i + width] > seaLevel
                           THEN {i + width} ELSE {})
        marked == UNION { marks(i) : i \in 0..(width * height - 1) }
    IN  [i \in 0..(width * height - 1) |-> IF i \in marked THEN 1 ELSE 0]

\* The nearRiver layer: every river cell marks the cells within 2 of it.
nearRiver(mask, width, height) ==
    LET marks(i) ==
            IF mask[i] = 0 THEN {}
            ELSE LET x == i % width
                     y == i \div width
                 IN  { (y + o[2]) * width + (x + o[1]) :
                         o \in { d \in (-2..2) \X (-2..2) :
                                   /\ x + d[1] >= 0 /\ y + d[2] >= 0
                                   /\ x + d[1] < width /\ y + d[2] < height } }
        marked == UNION { marks(i) : i \in 0..(width * height - 1) }
    IN  [i \in 0..(width * height - 1) |-> IF i \in marked THEN 1 ELSE 0]

\* The rules of a land cell with fish tried before gold and iron.
resourceAt_FishFirst(biome, river, water, oreVal, densVal, humid, config) ==
    IF water # 0 /\ biome # 4 /\ biome # 3
    THEN [type |-> ResourceType.Fish, density |-> RoundDiv(densVal * 150, 1000) + 60]
    ELSE IF (biome = 25 \/ biome = 24) /\ river # 0 /\ oreVal > config.goldRarity
    THEN [type |-> ResourceType.Gold,
          density |-> RoundDiv((oreVal - config.goldRarity) * 180,
                               1000 - config.goldRarity) + 50]
    ELSE IF (biome = 25 \/ biome = 24 \/ biome = 18) /\ oreVal > config.ironRarity
    THEN [type |-> ResourceType.Iron,
          density |-> RoundDiv((oreVal - config.ironRarity) * 200,
                               1000 - config.ironRarity) + 40]
    ELSE [type |-> ResourceType.None, density |-> 0]

\* The rules of a land cell with fish densities of densVal * 250 + 60.
resourceAt_RichFish(biome, river, water, oreVal, densVal, humid, config) ==
    IF (biome = 25 \/ biome = 24) /\ river # 0 /\ oreVal > config.goldRarity
    THEN [type |-> ResourceType.Gold,
          density |-> RoundDiv((oreVal - config.goldRarity) * 180,
                               1000 - config.goldRarity) + 50]
    ELSE IF (biome = 25 \/ biome = 24 \/ biome = 18) /\ oreVal > config.ironRarity
    THEN [type |-> ResourceType.Iron,
          density |-> RoundDiv((oreVal - config.ironRarity) * 200,
                               1000 - config.ironRarity) + 40]
    ELSE IF water # 0 /\ biome # 4 /\ biome # 3
    THEN [type |-> ResourceType.Fish, density |-> RoundDiv(densVal * 250, 1000) + 60]
    ELSE [type |-> ResourceType.None, density |-> 0]

\* The body of the main loop for a land cell: the type and the density (before
\* the Uint8Array store) the cell is given; a cell that no rule writes keeps
\* the zeroes of the new arrays.
resourceAt(biome, river, water, oreVal, densVal, humid, config) ==
    IF (biome = 25 \/ biome = 24) /\ river # 0 /\ oreVal > config.goldRarity
    THEN [type |-> ResourceType.Gold,
          density |-> RoundDiv((oreVal - config.goldRarity) * 180,
                               1000 - config.goldRarity) + 50]
    ELSE IF (biome = 25 \/ biome = 24 \/ biome = 18) /\ oreVal > config.ironRarity
    THEN [type |-> ResourceType.Iron,
          density |-> RoundDiv((oreVal - config.ironRarity) * 200,
                               1000 - config.ironRarity) + 40]
    ELSE IF water # 0 /\ biome # 4 /\ biome # 3
    THEN [type |-> ResourceType.Fish, density |-> RoundDiv(densVal * 150, 1000) + 60]
    ELSE LET baseRes == BIOME_RESOURCE(biome)
             density == RoundDiv(densVal * 180, 1000) + 40
         IN  IF baseRes # NoResource /\ density >= config.minDensity
             THEN [type |-> baseRes,
                   density |-> IF baseRes = ResourceType.Fertile
                               THEN RoundDiv(density * (1000 + humid), 2000)
                               ELSE density]
             ELSE [type |-> ResourceType.None, density |-> 0]

generateResources(elev, humid, ids, mask, width, height, seaLevel, ore, dens, config) ==
    LET water == nearWater(elev, width, height, seaLevel)
        river == nearRiver(mask, width, height)
        at(i) == IF elev[i] <= seaLevel
                 THEN [type |-> ResourceType.None, density |-> 0]
                 ELSE resourceAt(ids[i], river[i], water[i], ore[i], dens[i], humid[i],
                                 config)
    IN  [resourceType |-> [i \in 0..(width * height - 1) |-> at(i).type % 256],
         resourceDensity |-> [i \in 0..(width * height - 1) |-> at(i).density % 256]]

(***************************************************************************)
(* generateResources on its own: a grassland map with one probed cell, up   *)
(* to one water cell and up to one river cell.                              *)
(***************************************************************************)

ResW == 4
ResH == 3
ResCells == 0..(ResW * ResH - 1)

\* defaultConfig.terrain.resources.
DefaultResources == [oreScale |-> 8, goldRarity |-> 880, ironRarity |-> 720, minDensity |-> 30]

\* Gold made commoner than iron, and a density floor that some cells miss.
OtherResources == [oreScale |-> 8, goldRarity |-> 600, ironRarity |-> 720, minDensity |-> 50]

\* Configuration, oreVal and densVal of a run, the same at every cell.
ResourceScenarios ==
    { [config |-> DefaultResources, ore |-> 900, dens |-> 500],
      [config |-> DefaultResources, ore |-> 880, dens |-> 500],
      [config |-> DefaultResources, ore |-> 720, dens |-> 0],
      [config |-> OtherResources, ore |-> 700, dens |-> 0] }

\* The biome of the probed cell: mountain, badlands, grassland, polar desert, taiga.
ProbeBiomes == { 25, 18, 12, 3, 8 }

\* The probed cell: a corner, or the cell diagonally next to it.
ProbeCells == { 0, ResW + 1 }

InitResources ==
    \E sc \in ResourceScenarios, probe \in ProbeCells, kind \in ProbeBiomes,
       wet \in ResCells \cup {-1}, stream \in ResCells \cup {-1} :
        /\ wet # probe /\ (stream = -1 \/ stream # wet)
        /\ pc = "resources"
        /\ terrain = [width |-> ResW, height |-> ResH, seaLevel |-> 370]
        /\ elevation = [i \in ResCells |->
                          IF i = wet THEN 300
                          ELSE IF i = probe /\ kind = 25 THEN 900 ELSE 600]
        /\ humidity = [i \in ResCells |-> 200 + 100 * (i % 4)]
        /\ biomeIds = [i \in ResCells |->
                         IF i = wet THEN 1 ELSE IF i = probe THEN kind ELSE 12]
        /\ riverMask = [i \in ResCells |-> IF i = stream THEN 1 ELSE 0]
        /\ resources = sc.config
        /\ oreNoise = [i \in ResCells |-> sc.ore]
        /\ densityNoise = [i \in ResCells |-> sc.dens]
        /\ resourceType = Unset /\ resourceDensity = Unset
        /\ temperature = Unset /\ variation = Unset /\ biomes = Unset
        /\ baseHumidity = Unset /\ rivers = Unset /\ riverNoise = Unset
        /\ riverWidth = Unset
        /\ WaterUnset /\ NationUnset /\ RunUnset

\* The worker's call of generateResources.
GenerateResources ==
    /\ pc = "resources"
    /\ LET made == generateResources(elevation, humidity, biomeIds, riverMask,
                                     terrain.width, terrain.height, terrain.seaLevel,
                                     oreNoise, densityNoise, resources)
       IN  /\ resourceType' = made.resourceType
           /\ resourceDensity' = made.resourceDensity
    /\ pc' = "done"
    /\ UNCHANGED <<fieldVars, humidity, biomeVars, waterVars, riverVars, resources,
                   oreNoise, densityNoise, nationVars, runVars>>

NextResources == GenerateResources

SpecResources == InitResources /\ [][NextResources]_vars

\* Some river cell lies within 2 columns and 2 rows of cell i.
RiverWithinTwo(i) ==
    \E j \in Cells :
        /\ riverMask[j] # 0
        /\ Abs((j % terrain.width) - (i % terrain.width)) <= 2
        /\ Abs((j \div terrain.width) - (i \div terrain.width)) <= 2

GoldCondition(i) ==
    biomeIds[i] \in {24, 25} /\ RiverWithinTwo(i) /\ oreNoise[i] > resources.goldRarity

IronCondition(i) == biomeIds[i] \in {18, 24, 25} /\ oreNoise[i] > resources.ironRarity

FishCondition(i) ==
    /\ \E j \in AdjacentCells(i) : elevation[j] <= terrain.seaLevel
    /\ biomeIds[i] \notin {3, 4}

\* C10: for every land cell generateResources applies gold, iron, fish and the
\* biome default in this order and stops at the first that matches: a cell
\* meeting the gold condition is Gold whatever else it meets, one meeting the
\* iron but not the gold condition is Iron even next to water, one meeting only
\* the fish condition is Fish, and only a cell meeting none of the three gets
\* its biome's default resource (or none).
C10_ResourcePriority ==
    pc = "done" =>
        \A i \in Cells :
            elevation[i] > terrain.seaLevel =>
                /\ GoldCondition(i) => resourceType[i] = ResourceType.Gold
                /\ (~GoldCondition(i) /\ IronCondition(i)) =>
                       resourceType[i] = ResourceType.Iron
                /\ (~GoldCondition(i) /\ ~IronCondition(i) /\ FishCondition(i)) =>
                       resourceType[i] = ResourceType.Fish
                /\ (~GoldCondition(i) /\ ~IronCondition(i) /\ ~FishCondition(i)) =>
                       resourceType[i] \in {BIOME_RESOURCE(biomeIds[i]), ResourceType.None}
                                           \ {NoResource}

\* A mountain cell next to water and near a river with ore above both rarities
\* is Gold, while a grassland cell next to the same water is Fish.
C10_Witness ==
    /\ pc = "done"
    /\ \E i, j \in Cells :
        /\ elevation[i] > terrain.seaLevel /\ elevation[j] > terrain.seaLevel
        /\ GoldCondition(i) /\ IronCondition(i) /\ FishCondition(i)
        /\ resourceType[i] = ResourceType.Gold
        /\ ~GoldCondition(j) /\ ~IronCondition(j) /\ FishCondition(j)
        /\ resourceType[j] = ResourceType.Fish

(***************************************************************************)
(* The seeded libraries.  alea(key) returns a generator whose n-th call    *)
(* returns a value of [0,1) that depends on key and n only; entropy stands *)
(* for the arithmetic of the library, which the model does not fix.  A key *)
(* `${seed}-suffix` is the pair of the seed and the suffix.                 *)
(***************************************************************************)

KeySuffixes ==
    << "spawn", "names", "colors", "flags", "elevation", "continent", "ocean",
       "temperature", "humidity", "biome-variation", "river-primary",
       "river-secondary", "river-warpX", "river-warpY", "river-width", "ore",
       "res-density" >>

KeyCode(key) ==
    key[1] * (Len(KeySuffixes) + 1)
    + (CHOOSE k \in 1..Len(KeySuffixes) : KeySuffixes[k] = key[2])

\* alea(key) called with the generator object of an earlier call still in use.
alea_Shared(key) == [key |-> key, calls |-> IF rng.key = key THEN rng.calls ELSE 0]

\* alea(key): a new generator, no call made yet.
alea(key) == [key |-> key, calls |-> 0]

\* The value, in thousandths, that the next call of the generator returns.
random(gen) ==
    (((KeyCode(gen.key) * 37 + entropy) % 1000) * ((gen.calls * 7 + 1) % 1000)) % 1000

\* The generator after that call.
called(gen) == [gen EXCEPT !.calls = @ + 1]

\* arr[Math.floor(rng() * arr.length)]
pick(arr, gen) == arr[(random(gen) * Len(arr)) \div 1000 + 1]

\* createNoise2D(gen): the noise function, fixed by the key of the generator
\* and the calls made on it before.
createNoise2D(gen) == [key |-> gen.key, calls |-> gen.calls]

\* The sample of a noise function at (x, y), coordinates in millionths: a value
\* in -1000..1000.
noise2D(noise, x, y) ==
    LET mixed == KeyCode(noise.key) * 7 + noise.calls * 13 + entropy + (x % 1009) * 31
                 + (y % 1013) * 17 + ((x \div 1009) % 1000) * 3
                 + ((y \div 1013) % 1000) * 5
    IN  ((mixed * 37) % 2001) - 1000

(***************************************************************************)
(* NameGenerator                                                            *)
(***************************************************************************)

PREFIXES ==
    << "Al", "Bel", "Cor", "Dra", "El", "Fal", "Gar", "Hal", "Ir", "Kal", "Lor",
       "Mar", "Nor", "Or", "Pel", "Rav", "Sol", "Tal", "Val", "Zan", "Ar", "Br",
       "Car", "Dur", "Eth", "Fen", "Gol", "Hel", "Is", "Jen", "Kir", "Lun", "Mon",
       "Nev", "Os", "Pyr", "Rin", "Ser", "Ther", "Ul", "Vos", "Wyr", "Xan", "Yar",
       "Zeph" >>

ROOTS ==
    << "dor", "mar", "ven", "gal", "tan", "ber", "col", "fin", "gor", "hel", "kan",
       "lar", "mun", "nar", "por", "ras", "sil", "tor", "var", "wyn", "dal", "eth",
       "gar", "ith", "kal", "mer", "oth", "ran", "sar", "vel", "az", "en", "il",
       "on", "ur", "ash", "eld", "im", "ov", "ul" >>

SUFFIXES ==
    << "ia", "and", "ria", "oth", "en", "is", "on", "um", "ar", "heim", "gar",
       "land", "mark", "nia", "stan", "burg", "ford", "shire", "vale", "wick",
       "ora", "ica", "alia", "ania", "ovia", "eria", "inia", "olia", "uria",
       "avia" >>

TITLES ==
    << "Kingdom of", "Republic of", "Empire of", "United", "Grand Duchy of",
       "Confederation of", "Commonwealth of", "Dominion of", "Federation of",
       "Free State of", "Principality of", "Sultanate of" >>

\* new NameGenerator(seed)
NameGenerator(s) == [rng |-> alea(<<s, "names">>), usedNames |-> {}]

\* generate with a fallback name that is not added to usedNames.
RECURSIVE nameAttempt_FallbackNotRecorded(_, _)
nameAttempt_FallbackNotRecorded(gen, attempt) ==
    IF attempt >= 50
    THEN [name |-> "Nation-" \o ToString(Cardinality(gen.usedNames) + 1), gen |-> gen]
    ELSE LET r1 == called(gen.rng)
             r2 == called(r1)
             r3 == called(r2)
             r4 == called(r3)
             base == pick(PREFIXES, gen.rng) \o pick(ROOTS, r1) \o pick(SUFFIXES, r2)
             titled == random(r3) < 400
             withTitle == IF titled THEN pick(TITLES, r4) \o " " \o base ELSE base
             after == IF titled THEN called(r4) ELSE r4
         IN  IF withTitle \notin gen.usedNames
             THEN [name |-> withTitle,
                   gen |-> [rng |-> after, usedNames |-> gen.usedNames \cup {withTitle}]]
             ELSE nameAttempt_FallbackNotRecorded([gen EXCEPT !.rng = after], attempt + 1)

\* NameGenerator.generate from its attempt-th attempt on: the name returned and
\* the generator after the call.
RECURSIVE nameAttempt(_, _)
nameAttempt(gen, attempt) ==
    IF attempt >= 50
    THEN LET fallback == "Nation-" \o ToString(Cardinality(gen.usedNames) + 1)
         IN  [name |-> fallback,
              gen |-> [gen EXCEPT !.usedNames = @ \cup {fallback}]]
    ELSE LET r1 == called(gen.rng)
             r2 == called(r1)
             r3 == called(r2)
             r4 == called(r3)
             base == pick(PREFIXES, gen.rng) \o pick(ROOTS, r1) \o pick(SUFFIXES, r2)
             titled == random(r3) < 400
             withTitle == IF titled THEN pick(TITLES, r4) \o " " \o base ELSE base
             after == IF titled THEN called(r4) ELSE r4
         IN  IF withTitle \notin gen.usedNames
             THEN [name |-> withTitle,
                   gen |-> [rng |-> after, usedNames |-> gen.usedNames \cup {withTitle}]]
             ELSE nameAttempt([gen EXCEPT !.rng = after], attempt + 1)

generateName(gen) == nameAttempt(gen, 0)

(***************************************************************************)
(* ColorGenerator.  Hues are in thousandths of a degree, saturation and     *)
(* lightness in thousandths (rounded down).                                 *)
(***************************************************************************)

\* h in thousandths of a degree, s and l in thousandths; c, x and m of the code
\* are c / 1000, x / 1000 and m2 / 2000.
hslToRgb(h, s, l) ==
    LET c == ((1000 - Abs(2 * l - 1000)) * s) \div 1000
        x == (c * (1000 - Abs(((h % 120000) \div 60) - 1000))) \div 1000
        m2 == 2 * l - c
        channel(v) == RoundDiv((2 * v + m2) * 255, 2000)
        rgb == IF h < 60000 THEN <<c, x, 0>>
               ELSE IF h < 120000 THEN <<x, c, 0>>
               ELSE IF h < 180000 THEN <<0, c, x>>
               ELSE IF h < 240000 THEN <<0, x, c>>
               ELSE IF h < 300000 THEN <<x, 0, c>>
               ELSE <<c, 0, x>>
    IN  << channel(rgb[1]), channel(rgb[2]), channel(rgb[3]) >>

colorDistSq(a, b) ==
    (a[1] - b[1]) * (a[1] - b[1]) + (a[2] - b[2]) * (a[2] - b[2])
    + (a[3] - b[3]) * (a[3] - b[3])

\* ColorGenerator.MIN_DIST_SQ
MIN_DIST_SQ == 2500

\* new ColorGenerator(seed): the constructor draws the starting hue.
ColorGenerator(s) ==
    LET made == alea(<<s, "colors">>)
    IN  [rng |-> called(made), usedColors |-> <<>>, hueOffset |-> random(made) * 360,
         index |-> 0]

\* generate that returns the colour of its first attempt, untested.
colorAttempt_Untested(gen, attempt) ==
    LET hue == (gen.hueOffset + gen.index * 137508) % 360000
        r1 == called(gen.rng)
        rgb == hslToRgb(hue, 550 + (random(gen.rng) * 300) \div 1000,
                        380 + (random(r1) * 220) \div 1000)
    IN  [color |-> rgb,
         gen |-> [rng |-> called(r1), usedColors |-> Append(gen.usedColors, rgb),
                  hueOffset |-> gen.hueOffset, index |-> gen.index + 1]]

\* ColorGenerator.generate from its attempt-th attempt on.
RECURSIVE colorAttempt(_, _)
colorAttempt(gen, attempt) ==
    IF attempt >= 30
    THEN LET hue == (gen.hueOffset + gen.index * 137508) % 360000
             rgb == hslToRgb(hue, 600, 450)
         IN  [color |-> rgb,
              gen |-> [gen EXCEPT !.usedColors = Append(@, rgb), !.index = @ + 1]]
    ELSE LET hue == (gen.hueOffset + gen.index * 137508 + attempt * 47000) % 360000
             r1 == called(gen.rng)
             r2 == called(r1)
             saturation == 550 + (random(gen.rng) * 300) \div 1000
             lightness == 380 + (random(r1) * 220) \div 1000
             rgb == hslToRgb(hue, saturation, lightness)
             tooClose == \E k \in 1..Len(gen.usedColors) :
                             colorDistSq(rgb, gen.usedColors[k]) < MIN_DIST_SQ
         IN  IF ~tooClose
             THEN [color |-> rgb,
                   gen |-> [rng |-> r2, usedColors |-> Append(gen.usedColors, rgb),
                            hueOffset |-> gen.hueOffset, index |-> gen.index + 1]]
             ELSE colorAttempt([gen EXCEPT !.rng = r2], attempt + 1)

generateColor(gen) == colorAttempt(gen, 0)

(***************************************************************************)
(* FlagGenerator.  Hues in thousandths of a degree, saturation and          *)
(* lightness in millionths.                                                 *)
(***************************************************************************)

PATTERN_TYPES ==
    << "solid", "horizontal_stripes", "vertical_stripes", "cross", "diagonal",
       "quartered" >>

\* new FlagGenerator(seed)
FlagGenerator(s) == [rng |-> alea(<<s, "flags">>)]

\* randomHSL with the generator r: three calls.
randomHSL(r) ==
    << random(r) * 360, 450000 + random(called(r)) * 400,
       300000 + random(called(called(r))) * 350 >>

\* FlagGenerator.generate: the flag and the generator after the call; a flag
\* without detail carries the empty tuple there.
generateFlag(gen) ==
    LET r1 == called(gen.rng)
        type == pick(PATTERN_TYPES, gen.rng)
        background == randomHSL(r1)
        r4 == called(called(called(r1)))
        drawn == randomHSL(r4)
        r7 == called(called(called(r4)))
        near == Abs(drawn[1] - background[1]) < 60000
        accent == IF near
                  THEN << (background[1] + 120000 + random(r7) * 120) % 360000,
                          drawn[2], drawn[3] >>
                  ELSE drawn
        r8 == IF near THEN called(r7) ELSE r7
        detailed == type = "quartered" \/ (type = "cross" /\ random(r8) > 500)
        r9 == IF type = "cross" THEN called(r8) ELSE r8
        third == randomHSL(r9)
        r12 == called(called(called(r9)))
        detail == << (accent[1] + 90000 + random(r12) * 90) % 360000, third[2], third[3] >>
    IN  [flag |-> [type |-> type, background |-> background, accent |-> accent,
                   detail |-> IF detailed THEN detail ELSE <<>>],
         gen |-> [rng |-> IF detailed THEN called(r12) ELSE r9]]

(***************************************************************************)
(* NationSpawner.  Scores are in ten-thousandths.                           *)
(***************************************************************************)

\* BIOME_DESIRABILITY[biome] in thousandths; undefined is -1.
BIOME_DESIRABILITY(biome) ==
    CASE biome = 12 -> 1000 [] biome = 13 -> 900 [] biome = 14 -> 850
      [] biome = 11 -> 700 [] biome = 19 -> 650 [] biome = 7 -> 500
      [] biome = 15 -> 600 [] biome = 20 -> 700 [] biome = 21 -> 550
      [] biome = 22 -> 300 [] biome = 24 -> 350 [] biome = 9 -> 400
      [] biome = 8 -> 350 [] biome = 10 -> 200 [] biome = 16 -> 250
      [] biome = 18 -> 150 [] OTHER -> -1

GOVERNMENT_TYPES ==
    << "monarchy", "republic", "democracy", "theocracy", "empire", "tribal",
       "oligarchy", "dictatorship" >>

\* desirability + 0.2 as the float sum comes out: 0.7 + 0.2 is one unit in the
\* last place below 0.9, 0.65 + 0.2 and 0.4 + 0.2 are one above 0.85 and 0.6.
withRiverBonus(desirability) ==
    desirability * 10 + 2000
    + (CASE desirability = 700 -> -1 [] desirability = 650 -> 1
         [] desirability = 400 -> 1 [] OTHER -> 0)

\* The cells findCandidates visits, in its order: every 4th column of every 4th
\* row, 4 cells away from each edge.
sampledCells(width, height) ==
    LET cols == IF width > 8 THEN (width - 9) \div 4 + 1 ELSE 0
        rows == IF height > 8 THEN (height - 9) \div 4 + 1 ELSE 0
    IN  [k \in 1..(rows * cols) |->
            (4 + 4 * ((k - 1) \div cols)) * width + (4 + 4 * ((k - 1) % cols))]

\* riverBonus > 0: a river cell within 3 rows and columns of idx.
riverNearby(idx, mask, width, size) ==
    \E dy \in -3..3, dx \in -3..3 :
        LET ni == (idx \div width + dy) * width + ((idx % width) + dx)
        IN  ni >= 0 /\ ni < size /\ mask[ni] # 0

findCandidates(elev, ids, mask, terr) ==
    LET size == terr.width * terr.height
        habitable(idx) ==
            /\ elev[idx] > terr.seaLevel
            /\ BIOME_DESIRABILITY(ids[idx]) >= 100
        scored(idx) ==
            [index |-> idx,
             score |-> IF riverNearby(idx, mask, terr.width, size)
                       THEN withRiverBonus(BIOME_DESIRABILITY(ids[idx]))
                       ELSE BIOME_DESIRABILITY(ids[idx]) * 10]
        visited == SelectSeq(sampledCells(terr.width, terr.height), habitable)
    IN  [k \in 1..Len(visited) |-> scored(visited[k])]

\* One round of the Fisher-Yates loop of pickSpawnPoints (i counts from 0).
swapRandom(mixed, i) ==
    LET j == (random(mixed.rng) * (i + 1)) \div 1000
    IN  [list |-> [mixed.list EXCEPT ![i + 1] = mixed.list[j + 1],
                                     ![j + 1] = mixed.list[i + 1]],
         rng |-> called(mixed.rng)]

\* The rounds i = hi down to lo of that loop, in this order.
RECURSIVE shuffle(_, _, _)
shuffle(mixed, hi, lo) ==
    IF hi < lo THEN mixed
    ELSE IF hi = lo THEN swapRandom(mixed, hi)
    ELSE LET mid == (lo + hi) \div 2
             upper == shuffle(mixed, hi, mid + 1)
         IN  IF upper = upper THEN shuffle(upper, mid, lo) ELSE upper

\* The sort with the lowest score first.
RECURSIVE sortByScore_Ascending(_)
sortByScore_Ascending(list) ==
    IF list = <<>> THEN <<>>
    ELSE LET low == CHOOSE v \in { list[k].score : k \in 1..Len(list) } :
                        \A k \in 1..Len(list) : list[k].score >= v
             first(c) == c.score = low
             rest(c) == c.score # low
         IN  SelectSeq(list, first) \o sortByScore_Ascending(SelectSeq(list, rest))

\* shuffled.sort((a, b) => b.score - a.score): by score, highest first, equal
\* scores in the order they have (Array.prototype.sort is stable).
RECURSIVE sortByScore(_)
sortByScore(list) ==
    IF list = <<>> THEN <<>>
    ELSE LET top == CHOOSE v \in { list[k].score : k \in 1..Len(list) } :
                        \A k \in 1..Len(list) : list[k].score <= v
             first(c) == c.score = top
             rest(c) == c.score # top
         IN  SelectSeq(list, first) \o sortByScore(SelectSeq(list, rest))

\* tooClose with the squared distance compared to minDist itself.
tooClose_Unsquared(cand, selected, minDist, width) ==
    \E k \in 1..Len(selected) :
        LET dx == (cand % width) - (selected[k] % width)
            dy == (cand \div width) - (selected[k] \div width)
        IN  dx * dx + dy * dy < minDist

\* tooClose of pickSpawnPoints for candidate cell cand.
tooClose(cand, selected, minDist, width) ==
    \E k \in 1..Len(selected) :
        LET dx == (cand % width) - (selected[k] % width)
            dy == (cand \div width) - (selected[k] \div width)
        IN  dx * dx + dy * dy < minDist * minDist

\* One round of the greedy loop of pickSpawnPoints, on candidate cell cand.
selectOne(selected, cand, count, minDist, width) ==
    IF Len(selected) >= count \/ tooClose(cand, selected, minDist, width)
    THEN selected
    ELSE Append(selected, cand)

\* The rounds of that loop on the candidates lo..hi of the sorted list.
RECURSIVE select(_, _, _, _, _, _, _)
select(selected, sorted, lo, hi, count, minDist, width) ==
    IF lo > hi THEN selected
    ELSE IF lo = hi THEN selectOne(selected, sorted[lo].index, count, minDist, width)
    ELSE LET mid == (lo + hi) \div 2
             lower == select(selected, sorted, lo, mid, count, minDist, width)
         IN  IF lower = lower
             THEN select(lower, sorted, mid + 1, hi, count, minDist, width)
             ELSE lower

\* pickSpawnPoints: the selected cells and the generator after the shuffle.
pickSpawnPoints(candidates, count, minDist, width, gen) ==
    LET mixed == shuffle([list |-> candidates, rng |-> gen], Len(candidates) - 1, 1)
        sorted == sortByScore(mixed.list)
    IN  [selected |-> select(<<>>, sorted, 1, Len(sorted), count, minDist, width),
         rng |-> mixed.rng]

\* The tests of claimTerritory on an in-bounds cell without the owner test.
claimable_AnyOwner(idx, elev, ids, seaLevel, owners) ==
    /\ elev[idx] > seaLevel
    /\ ~(ids[idx] <= 2 \/ ids[idx] = 3 \/ ids[idx] = 4)

\* The tests of claimTerritory on an in-bounds cell.
claimable(idx, elev, ids, seaLevel, owners) ==
    /\ elev[idx] > seaLevel
    /\ owners[idx] = ""
    /\ ~(ids[idx] <= 2 \/ ids[idx] = 3 \/ ids[idx] = 4)

\* claimTerritory with a radius of 4, the step of findCandidates: a 9x9 square
\* that reaches the neighbouring candidates.
claimTerritory_Radius4(spawnIdx, elev, ids, terr, owners, nationId) ==
    LET sx == spawnIdx % terr.width
        sy == spawnIdx \div terr.width
        square == { (sy + d[2]) * terr.width + (sx + d[1]) :
                      d \in { o \in (-4..4) \X (-4..4) :
                                /\ sx + o[1] >= 0 /\ sy + o[2] >= 0
                                /\ sx + o[1] < terr.width /\ sy + o[2] < terr.height } }
        claimed == { idx \in square : claimable(idx, elev, ids, terr.seaLevel, owners) }
    IN  [claimed |-> claimed,
         ownerMap |-> [idx \in claimed |-> nationId] @@ owners]

\* claimTerritory: the claimed set and the owner map after the pass.
claimTerritory(spawnIdx, elev, ids, terr, owners, nationId) ==
    LET sx == spawnIdx % terr.width
        sy == spawnIdx \div terr.width
        square == { (sy + d[2]) * terr.width + (sx + d[1]) :
                      d \in { o \in (-2..2) \X (-2..2) :
                                /\ sx + o[1] >= 0 /\ sy + o[2] >= 0
                                /\ sx + o[1] < terr.width /\ sy + o[2] < terr.height } }
        claimed == { idx \in square : claimable(idx, elev, ids, terr.seaLevel, owners) }
    IN  [claimed |-> claimed,
         ownerMap |-> [idx \in claimed |-> nationId] @@ owners]

\* One round of the loop of spawnNations: the objects after the nation at
\* spawnIdx has been made.
spawnOne(s, spawnIdx, elev, ids, terr) ==
    LET id == "nation-" \o ToString(Len(s.nations))
        named == generateName(s.nameGen)
        coloured == generateColor(s.colorGen)
        flagged == generateFlag(s.flagGen)
        g1 == called(s.rng)
        g2 == called(g1)
        g3 == called(g2)
        g4 == called(g3)
        g5 == called(g4)
        g6 == called(g5)
        g7 == called(g6)
        g8 == called(g7)
        g9 == called(g8)
        territory == claimTerritory(spawnIdx, elev, ids, terr, s.ownerMap, id)
        nation ==
            [id |-> id, name |-> named.name, color |-> coloured.color,
             flag |-> flagged.flag,
             government |-> pick(GOVERNMENT_TYPES, s.rng),
             personality |->
                 [aggression |-> 1000 + random(g1) * 8,
                  expansionism |-> 1000 + random(g2) * 8,
                  diplomacy |-> 1000 + random(g3) * 8,
                  mercantilism |-> 1000 + random(g4) * 8,
                  militarism |-> 1000 + random(g5) * 8],
             capital |-> spawnIdx,
             provinces |-> territory.claimed,
             stats |-> [population |-> 50 + (random(g6) * 100) \div 1000,
                        military |-> 50 + (random(g7) * 50) \div 1000,
                        economy |-> 30 + (random(g8) * 70) \div 1000,
                        diplomacy |-> 30 + (random(g9) * 70) \div 1000]]
    IN  [rng |-> called(g9), nameGen |-> named.gen, colorGen |-> coloured.gen,
         flagGen |-> flagged.gen, ownerMap |-> territory.ownerMap,
         nations |-> Append(s.nations, nation)]

\* The rounds of the loop of spawnNations on the spawn points lo..hi.
RECURSIVE spawnLoop(_, _, _, _, _, _, _)
spawnLoop(s, spawnPoints, lo, hi, elev, ids, terr) ==
    IF lo > hi THEN s
    ELSE IF lo = hi THEN spawnOne(s, spawnPoints[lo], elev, ids, terr)
    ELSE LET mid == (lo + hi) \div 2
             lower == spawnLoop(s, spawnPoints, lo, mid, elev, ids, terr)
         IN  IF lower = lower
             THEN spawnLoop(lower, spawnPoints, mid + 1, hi, elev, ids, terr)
             ELSE lower

\* spawnNations: nations and ownerMap, and the four generators as the call
\* leaves them.
spawnNations(elev, ids, mask, terr, count, s, minSpacing) ==
    LET picked == pickSpawnPoints(findCandidates(elev, ids, mask, terr), count,
                                  minSpacing, terr.width, alea(<<s, "spawn">>))
    IN  spawnLoop([rng |-> picked.rng, nameGen |-> NameGenerator(s),
                   colorGen |-> ColorGenerator(s), flagGen |-> FlagGenerator(s),
                   ownerMap |-> [i \in 0..(terr.width * terr.height - 1) |-> ""],
                   nations |-> <<>>],
                  picked.selected, 1, Len(picked.selected), elev, ids, terr)

\* The ownership layer MapView fills from the owner map: 255 everywhere, then
\* the index of the owner's nation, stored in a Uint8Array.
ownershipLayer(owners, made) ==
    LET ids == { made[k].id : k \in 1..Len(made) }
        nationIdToIndex == [id \in ids |-> (CHOOSE k \in 1..Len(made) : made[k].id = id) - 1]
    IN  [i \in DOMAIN owners |->
            IF owners[i] # "" /\ owners[i] \in ids
            THEN nationIdToIndex[owners[i]] % 256
            ELSE 255]

(***************************************************************************)
(* The nation spawning of MapView's onmessage on its own: spawnNations and  *)
(* the conversion of its owner map into the ownership layer.                *)
(***************************************************************************)

\* No generator object made yet.
NoGenerator == [key |-> <<>>, calls |-> 0]

SpawnW == 17
SpawnH == 13

SpawnMaps == { "plain", "coast" }

\* plain: grassland everywhere.  coast: ocean in the first columns, then a
\* column of shore, a patch of polar desert, woodland in the lower rows.
SpawnBiome(map, x, y) ==
    IF map = "plain" THEN 12
    ELSE IF x <= 5 THEN 1
    ELSE IF x = 6 THEN 2
    ELSE IF x \in 9..10 /\ y \in 5..6 THEN 3
    ELSE IF y >= 7 THEN 13
    ELSE 12

SpawnElevation(map, x, y) ==
    IF SpawnBiome(map, x, y) = 1 THEN 300
    ELSE IF SpawnBiome(map, x, y) = 2 THEN 372
    ELSE 600

\* The configured numbers of nations (12 is the default) and spacings.
SpawnCounts == { 0, 1, 3, 12 }
SpawnSpacings == { 0, 4, 5, 9 }
Seeds == { 1, 2 }
Entropies == { 7, 333 }

InitSpawnOn(map, width, height, count, minSpacing) ==
    /\ pc = "done"
    /\ terrain = [width |-> width, height |-> height, seaLevel |-> 370]
    /\ elevation = [i \in 0..(width * height - 1) |->
                      SpawnElevation(map, i % width, i \div width)]
    /\ biomeIds = [i \in 0..(width * height - 1) |->
                     SpawnBiome(map, i % width, i \div width)]
    /\ riverMask = [i \in 0..(width * height - 1) |->
                      IF map = "coast" /\ i = 5 * width + 12 THEN 1 ELSE 0]
    /\ nationsConfig = [count |-> count, minSpacing |-> minSpacing]
    /\ seed \in Seeds
    /\ entropy \in Entropies
    /\ rng = NoGenerator
    /\ nameGen = [rng |-> NoGenerator, usedNames |-> {}]
    /\ colorGen = [rng |-> NoGenerator, usedColors |-> <<>>, hueOffset |-> 0, index |-> 0]
    /\ flagGen = [rng |-> NoGenerator]
    /\ nations = <<>>
    /\ ownerMap = Unset
    /\ ownership = [i \in 0..(width * height - 1) |-> 255]
    /\ RunUnset
    /\ humidity = Unset /\ temperature = Unset /\ variation = Unset /\ biomes = Unset
    /\ baseHumidity = Unset /\ rivers = Unset /\ riverNoise = Unset /\ riverWidth = Unset
    /\ WaterUnset /\ ResourceUnset

InitSpawn ==
    \E map \in SpawnMaps, count \in SpawnCounts, minSpacing \in SpawnSpacings :
        InitSpawnOn(map, SpawnW, SpawnH, count, minSpacing)

\* MapView's onmessage from the call of spawnNations to the filled ownership
\* layer: what it writes.
onmessage ==
    \E made \in { spawnNations(elevation, biomeIds, riverMask, terrain,
                                nationsConfig.count, seed, nationsConfig.minSpacing) } :
        /\ nations' = made.nations
        /\ ownerMap' = made.ownerMap
        /\ ownership' = ownershipLayer(made.ownerMap, made.nations)
        /\ rng' = made.rng
        /\ nameGen' = made.nameGen
        /\ colorGen' = made.colorGen
        /\ flagGen' = made.flagGen

SpawnNations ==
    /\ pc = "done"
    /\ onmessage
    /\ pc' = "playing"
    /\ UNCHANGED <<fieldVars, humidity, biomeVars, waterVars, riverVars, resourceVars,
                   seed, entropy, nationsConfig, runVars>>

NextSpawn == SpawnNations

SpecSpawn == InitSpawn /\ [][NextSpawn]_vars

\* Column, row of a cell and the nations by index.
Col(i) == i % terrain.width
Row(i) == i \div terrain.width
NationIndexes == 1..Len(nations)

\* C4: every cell of a nation's province set is above sea level, has a biome
\* other than deep ocean, ocean, shore, polar desert and glacier, is in no
\* earlier nation's province set (it was unclaimed before the nation's claim
\* pass, so no cell belongs to two nations) and lies at most 2 columns and 2
\* rows from the nation's capital.
C4_ProvincesClaimable ==
    pc = "playing" =>
        \A k \in NationIndexes :
            \A c \in nations[k].provinces :
                /\ elevation[c] > terrain.seaLevel
                /\ biomeIds[c] \notin 0..4
                /\ \A j \in NationIndexes : j # k => c \notin nations[j].provinces
                /\ Abs(Col(c) - Col(nations[k].capital)) <= 2
                /\ Abs(Row(c) - Row(nations[k].capital)) <= 2
                /\ ownerMap[c] = nations[k].id

\* Two capitals 4 columns apart: the cells between them that both squares
\* cover went to the earlier nation; and a nation on the coast left out the
\* shore and polar-desert cells of its square.
C4_Witness ==
    /\ pc = "playing"
    /\ \/ \E j, k \in NationIndexes :
            /\ j < k
            /\ \E c \in nations[j].provinces :
                /\ Abs(Col(c) - Col(nations[k].capital)) <= 2
                /\ Abs(Row(c) - Row(nations[k].capital)) <= 2
                /\ c \notin nations[k].provinces
       \/ \E k \in NationIndexes :
            \E c \in Cells :
                /\ Abs(Col(c) - Col(nations[k].capital)) <= 2
                /\ Abs(Row(c) - Row(nations[k].capital)) <= 2
                /\ biomeIds[c] \in {2, 3}
                /\ c \notin nations[k].provinces
                /\ Cardinality(nations[k].provinces) > 1

\* C5: the capitals of two distinct nations are at least minSpacing apart
\* (Euclidean distance, compared squared).
C5_MinSpacing ==
    pc = "playing" =>
        \A j, k \in NationIndexes :
            j # k =>
                LET dx == Col(nations[j].capital) - Col(nations[k].capital)
                    dy == Row(nations[j].capital) - Row(nations[k].capital)
                IN  dx * dx + dy * dy >= nationsConfig.minSpacing * nationsConfig.minSpacing

\* Fewer nations than asked for and than there are candidates, because of the
\* spacing: a candidate 4 cells from a capital was refused under minSpacing 5
\* while one 4 columns and 4 rows away was accepted.
C5_Witness ==
    /\ pc = "playing"
    /\ nationsConfig.minSpacing = 5
    /\ Len(nations) >= 2
    /\ Len(nations) < nationsConfig.count
    /\ \E j, k \in NationIndexes :
        /\ Abs(Col(nations[j].capital) - Col(nations[k].capital)) = 4
        /\ Abs(Row(nations[j].capital) - Row(nations[k].capital)) = 4

(***************************************************************************)
(* The same handler, also on a map wide enough for more than 255 nations:   *)
(* one row of candidates on grassland, 4 cells apart.                       *)
(***************************************************************************)

WideNations == 257
WideW == 4 * WideNations + 5
WideH == 9

InitOwnership ==
    \/ InitSpawn
    \/ \E count \in { WideNations - 2, WideNations - 1, WideNations } :
           InitSpawnOn("plain", WideW, WideH, count, 4)

SpecOwnership == InitOwnership /\ [][NextSpawn]_vars

\* C6 as claimed: every cell of the ownership layer holds 255 or an index k
\* below the number of nations, and holds k exactly when the cell is in the
\* province set of nations[k], for every nation count.
C6_OwnershipMatchesProvinces ==
    pc = "playing" =>
        \A i \in Cells :
            /\ ownership[i] = 255 \/ ownership[i] < Len(nations)
            /\ \A k \in NationIndexes :
                   ownership[i] = k - 1 <=> i \in nations[k].provinces

(***************************************************************************)
(* TerrainGenerator: the noise-driven fields.  Coordinates handed to a     *)
(* noise function are in millionths, scales in millionths per cell,        *)
(* persistence, lacunarity, strengths and field values in thousandths.     *)
(***************************************************************************)

\* new TerrainGenerator(seed): its six noise functions.
TerrainGenerator(s) ==
    [elevationNoise |-> createNoise2D(alea(<<s, "elevation">>)),
     continentNoise |-> createNoise2D(alea(<<s, "continent">>)),
     oceanNoise |-> createNoise2D(alea(<<s, "ocean">>)),
     temperatureNoise |-> createNoise2D(alea(<<s, "temperature">>)),
     humidityNoise |-> createNoise2D(alea(<<s, "humidity">>)),
     biomeNoise |-> createNoise2D(alea(<<s, "biome-variation">>))]

\* TerrainGenerator.clamp01 on thousandths.
clampField(value) == Min(1000, Max(0, value))

\* The loop of sampleLayer from the given octave on: value and maxAmplitude
\* added by these octaves.
RECURSIVE sampleOctaves(_, _, _, _, _, _, _)
sampleOctaves(x, y, config, noise, octave, amplitude, frequency) ==
    IF octave >= config.octaves THEN [value |-> 0, maxAmplitude |-> 0]
    ELSE LET rest == sampleOctaves(x, y, config, noise, octave + 1,
                                   (amplitude * config.persistence) \div 1000,
                                   (frequency * config.lacunarity) \div 1000)
             sample == noise2D(noise, x * frequency, y * frequency)
         IN  [value |-> ((sample + 1000) * amplitude) \div 2000 + rest.value,
              maxAmplitude |-> amplitude + rest.maxAmplitude]

sampleLayer(x, y, config, noise) ==
    LET sums == sampleOctaves(x, y, config, noise, 0, 1000, config.scale)
    IN  IF sums.maxAmplitude > 0 THEN (sums.value * 1000) \div sums.maxAmplitude ELSE 0

\* Math.pow(0, power) for a negative power: above every finite value that
\* pow yields (1000000, for one thousandth to the power -1).
Infinity == 1000001

\* Math.pow(raw, power) for a whole power and 0 <= raw <= 1: 1 for the power
\* 0, the inverse of the positive power for a negative one.
RECURSIVE pow(_, _)
pow(raw, power) ==
    IF power = 0 THEN 1000
    ELSE IF power < 0
    THEN IF pow(raw, -power) = 0 THEN Infinity ELSE 1000000 \div pow(raw, -power)
    ELSE IF power = 1 THEN raw
    ELSE (raw * pow(raw, power - 1)) \div 1000

\* Math.sqrt of n millionths (n <= 2000000), in thousandths, rounded down.
sqrtField(n) == CHOOSE r \in 0..1415 : r * r <= n /\ (r + 1) * (r + 1) > n

islandFalloff(x, y, width, height) ==
    LET nx == (x * 2000) \div width - 1000
        ny == (y * 2000) \div height - 1000
    IN  Max(0, 1000 - sqrtField(nx * nx + ny * ny))

generateElevationField(gen, config) ==
    LET shape(scale) ==
            [scale |-> scale, octaves |-> 2, persistence |-> 600, lacunarity |-> 2000]
        at(x, y) ==
            LET base == sampleLayer(x, y, config, gen.elevationNoise)
                continent == sampleLayer(x, y, shape(config.continentScale),
                                         gen.continentNoise)
                ocean == sampleLayer(x, y, shape(config.oceanScale), gen.oceanNoise)
                raw == clampField((base * (1000 - config.continentStrength)
                                   + continent * config.continentStrength
                                   - ocean * config.oceanStrength) \div 1000)
                elev == pow(raw, config.redistributionPower)
            IN  IF config.islandMode
                THEN (elev * islandFalloff(x, y, config.width, config.height)) \div 1000
                ELSE elev
    IN  Layer([i \in 0..(config.width * config.height - 1) |->
                  at(i % config.width, i \div config.width)])

\* Float32Array.prototype.sort: ascending.
sortAscending(sample) ==
    [k \in 1..Len(sample) |->
        CHOOSE v \in { sample[j] : j \in 1..Len(sample) } :
            /\ Cardinality({ j \in 1..Len(sample) : sample[j] < v }) < k
            /\ Cardinality({ j \in 1..Len(sample) : sample[j] <= v }) >= k]

\* The land-fraction guarantee of the worker: the effective sea level.
effectiveSeaLevel(elev, msg) ==
    IF ~("minLandRatio" \in DOMAIN msg /\ msg.minLandRatio > 0) THEN msg.terrain.seaLevel
    ELSE LET totalTiles == msg.terrain.width * msg.terrain.height
             targetLand == (totalTiles * msg.minLandRatio) \div 1000
             landCount == Cardinality({ i \in 0..(totalTiles - 1) :
                                          elev[i] > msg.terrain.seaLevel })
             sampleSize == Ceil(totalTiles, 4)
             sample == sortAscending([k \in 1..sampleSize |-> elev[(k - 1) * 4]])
             cutIdx == (sampleSize * (1000 - msg.minLandRatio)) \div 1000
             lowered == Min(msg.terrain.seaLevel, sample[cutIdx + 1] - 1)
         IN  IF landCount >= targetLand THEN msg.terrain.seaLevel
             ELSE IF lowered < 50 THEN 50 ELSE lowered

\* waterDistance[index] as the float the field holds, in thousandths.
inlandAt(wd, index) == (wd.num[index] * 1000) \div wd.den

generateTemperatureField(gen, elev, terr, config, wd) ==
    LET at(x, y) ==
            LET index == y * terr.width + x
                latitude == 1000 - Abs((y * 2000) \div terr.height - 1000)
                noise == sampleLayer(x, y, config, gen.temperatureNoise)
                temp == clampField((latitude * config.latitudeStrength
                                    + noise * (1000 - config.latitudeStrength)
                                    - elev[index] * config.elevationCooling) \div 1000)
            IN  IF config.continentalStrength > 0
                THEN clampField(temp + ((temp - 500) * config.continentalStrength
                                        * inlandAt(wd, index)) \div 1000000)
                ELSE temp
    IN  Layer([i \in 0..(terr.width * terr.height - 1) |->
                  at(i % terr.width, i \div terr.width)])

generateHumidityField(gen, elev, terr, config, wd) ==
    LET at(x, y) ==
            LET index == y * terr.width + x
                noise == sampleLayer(x, y, config, gen.humidityNoise)
                coastal == 1000 - inlandAt(wd, index)
            IN  clampField((noise * (1000 - config.coastalInfluence)
                            + coastal * config.coastalInfluence
                            - elev[index] * config.elevationDrying) \div 1000)
    IN  Layer([i \in 0..(terr.width * terr.height - 1) |->
                  at(i % terr.width, i \div terr.width)])

generateBiomeNoiseField(gen, config, terr) ==
    Layer([i \in 0..(terr.width * terr.height - 1) |->
              sampleLayer(i % terr.width, i \div terr.width, config, gen.biomeNoise)])

(***************************************************************************)
(* RiverGenerator: the noise functions and the samples generate takes at   *)
(* each cell.  Warped coordinates are in thousandths of a cell.            *)
(***************************************************************************)

\* new RiverGenerator(seed): its five noise functions.
RiverGenerator(s) ==
    [primaryNoise |-> createNoise2D(alea(<<s, "river-primary">>)),
     secondaryNoise |-> createNoise2D(alea(<<s, "river-secondary">>)),
     warpNoiseX |-> createNoise2D(alea(<<s, "river-warpX">>)),
     warpNoiseY |-> createNoise2D(alea(<<s, "river-warpY">>)),
     widthNoise |-> createNoise2D(alea(<<s, "river-width">>))]

\* The loop of sampleNoise from octave o on; config.noiseOctaves >= 1.
RECURSIVE noiseOctaves(_, _, _, _, _, _, _)
noiseOctaves(noise, x, y, config, o, amp, freq) ==
    IF o >= config.noiseOctaves THEN [value |-> 0, maxAmp |-> 0]
    ELSE LET rest == noiseOctaves(noise, x, y, config, o + 1,
                                  (amp * config.noisePersistence) \div 1000,
                                  (freq * config.noiseLacunarity) \div 1000)
             sample == noise2D(noise, (x * freq) \div 1000, (y * freq) \div 1000)
         IN  [value |-> (sample * amp) \div 1000 + rest.value,
              maxAmp |-> amp + rest.maxAmp]

sampleNoise(noise, x, y, scale, config) ==
    LET sums == noiseOctaves(noise, x, y, config, 0, 1000, scale)
    IN  (sums.value * 1000) \div sums.maxAmp

\* p, s and the width-noise sample of generate at every cell.
riverSamples(gen, terr, config) ==
    LET wx(x, y) == x * 1000 + (noise2D(gen.warpNoiseX, x * 2000, y * 2000)
                                * config.warpStrength)
        wy(x, y) == y * 1000 + (noise2D(gen.warpNoiseY, x * 2000, y * 2000)
                                * config.warpStrength)
        p(x, y) == Abs(sampleNoise(gen.primaryNoise, wx(x, y), wy(x, y),
                                   config.primaryScale, config))
        s(x, y) == Abs(sampleNoise(gen.secondaryNoise, wx(x, y), wy(x, y),
                                   config.secondaryScale, config))
        cells == 0..(terr.width * terr.height - 1)
    IN  [p |-> Layer([i \in cells |-> p(i % terr.width, i \div terr.width)]),
         s |-> Layer([i \in cells |-> s(i % terr.width, i \div terr.width)]),
         wn |-> Layer([i \in cells |->
                          noise2D(gen.widthNoise, (i % terr.width) * 20000,
                                  (i \div terr.width) * 20000)])]

\* oreVal and densVal of generateResources at every cell.
resourceSamples(s, width, height, config) ==
    LET ore == createNoise2D(alea(<<s, "ore">>))
        dens == createNoise2D(alea(<<s, "res-density">>))
        cells == 0..(width * height - 1)
    IN  [ore |-> Layer([i \in cells |->
                           (noise2D(ore, (i % width) * config.oreScale * 1000,
                                    (i \div width) * config.oreScale * 1000) + 1000)
                           \div 2]),
         dens |-> Layer([i \in cells |->
                            (noise2D(dens, (i % width) * 10000, (i \div width) * 10000)
                             + 1000) \div 2])]

(***************************************************************************)
(* strategic: the four detectors.  A score is kept exactly, as the         *)
(* fraction num / den; bestPerCell is a Float32Array, so a stored score is *)
(* the score rounded to 24 significant bits.                               *)
(***************************************************************************)

\* Two scores compared as the numbers they are.
scoreGreater(a, b) ==
    IF a.den = b.den THEN a.num > b.num ELSE a.num * b.den > b.num * a.den

\* The binary digits of rest / den after the point, the first significant
\* one onwards counted in bits: whether cutting after 24 of them and rounding
\* to nearest (ties to even) gives less than the number.
RECURSIVE cutBelow(_, _, _, _)
cutBelow(rest, den, bits, last) ==
    IF rest = 0 THEN FALSE
    ELSE IF bits = 24 THEN 2 * rest < den \/ (2 * rest = den /\ last = 0)
    ELSE LET bit == IF 2 * rest >= den THEN 1 ELSE 0
         IN  cutBelow(2 * rest - bit * den, den,
                      IF bits > 0 \/ bit = 1 THEN bits + 1 ELSE 0, bit)

\* bestPerCell[ci] = score stores less than score (0 <= score <= 1).
storedBelow(score) ==
    IF score.num >= score.den THEN FALSE ELSE cutBelow(score.num, score.den, 0, 0)

\* The cells a pair of loops visits, in their order: y from y0 while y < y1 in
\* steps of dy, x from x0 while x < x1 in steps of dx.
scan(x0, x1, dx, y0, y1, dy, width) ==
    LET nx == IF x1 > x0 THEN Ceil(x1 - x0, dx) ELSE 0
        ny == IF y1 > y0 THEN Ceil(y1 - y0, dy) ELSE 0
    IN  [k \in 1..(nx * ny) |->
            (y0 + dy * ((k - 1) \div nx)) * width + x0 + dx * ((k - 1) % nx)]

\* score > bestPerCell[ci] when bestPerCell[ci] holds the score kept before:
\* the binary digits of both are taken side by side up to the 24th significant
\* digit of kept.  at.rest and at.keptRest are what is left of the two
\* numbers, at.bits the significant digits of kept so far, at.last its last
\* digit, at.diff the digits of score so far minus those of kept, as a number
\* of units of the last digit, cut to -2..2.  kept is then rounded to nearest
\* (ties to even) and score compared with the rounded value.
RECURSIVE exceedsFrom(_, _, _)
exceedsFrom(at, den, keptDen) ==
    IF at.keptRest = 0 THEN at.diff > 0 \/ (at.diff = 0 /\ at.rest > 0)
    ELSE IF at.bits = 24
    THEN IF 2 * at.keptRest > keptDen \/ (2 * at.keptRest = keptDen /\ at.last = 1)
         THEN at.diff > 1 \/ (at.diff = 1 /\ at.rest > 0)
         ELSE at.diff > 0 \/ (at.diff = 0 /\ at.rest > 0)
    ELSE CHOOSE greater \in
             { exceedsFrom(next, den, keptDen) :
                   next \in { LET bit == IF 2 * at.rest >= den THEN 1 ELSE 0
                                  keptBit == IF 2 * at.keptRest >= keptDen THEN 1 ELSE 0
                              IN  [rest |-> 2 * at.rest - bit * den,
                                   keptRest |-> 2 * at.keptRest - keptBit * keptDen,
                                   bits |-> IF at.bits > 0 \/ keptBit = 1
                                            THEN at.bits + 1 ELSE 0,
                                   last |-> keptBit,
                                   diff |-> Max(-2, Min(2, 2 * at.diff + bit - keptBit))] } } :
                 TRUE

\* score > bestPerCell[ci] after bestPerCell[ci] = kept (0 <= both <= 1).
exceeds(score, kept) ==
    exceedsFrom([rest |-> score.num, keptRest |-> kept.num, bits |-> 0, last |-> 0,
                 diff |-> 0], score.den, kept.den)

\* The first loop's update on one grid cell from the k-th scored cell on:
\* found is the scored cells of the grid cell in scan order, kept the place
\* in found of the cell bestIndex holds.
RECURSIVE bestFrom(_, _, _)
bestFrom(found, k, kept) ==
    IF k > Len(found) THEN kept
    ELSE CHOOSE last \in
             { bestFrom(found, k + 1, next) :
                   next \in { IF exceeds(found[k].score, found[kept].score)
                              THEN k ELSE kept } } : TRUE

\* bestIndex and bestPerCell of one grid cell after the scan (found not
\* empty): the first scored cell is taken (bestIndex is -1), a later one
\* replaces the kept one when its score is greater than the stored score.
bestOf(found) ==
    CHOOSE best \in { list[bestFrom(list, 2, 1)] : list \in { found } } : TRUE

\* Math.min(10, Math.max(1, Math.round(bestPerCell[ci] * times + plus))).
pointValue(score, times, plus) ==
    LET twice == 2 * (times * score.num + plus * score.den) + score.den
        rounded == twice \div (2 * score.den)
        onHalf == twice % (2 * score.den) = 0
    IN  Min(10, Max(1, IF onHalf /\ storedBelow(score) THEN rounded - 1 ELSE rounded))

\* The second loop with the best cell's column taken one too far.
detected_NextColumn(found, width, height, spacing, type, times, plus) ==
    LET gridW == Ceil(width, spacing)
        ci(c) == ((c.index \div width) \div spacing) * gridW + (c.index % width) \div spacing
        inCell(k) == LET here(c) == ci(c) = k - 1 IN SelectSeq(found, here)
        taken(k) == inCell(k) # <<>>
        used == SelectSeq([k \in 1..(gridW * Ceil(height, spacing)) |-> k], taken)
    IN  [n \in 1..Len(used) |->
            LET best == bestOf(inCell(used[n]))
            IN  [x |-> (best.index + 1) % width, y |-> best.index \div width, type |-> type,
                 value |-> pointValue(best.score, times, plus)]]

\* The second loop of a detector: one point for every grid cell that has a
\* best cell, in the order of the grid cells.
detected(found, width, height, spacing, type, times, plus) ==
    LET gridW == Ceil(width, spacing)
        gridH == Ceil(height, spacing)
        ci(c) == ((c.index \div width) \div spacing) * gridW + (c.index % width) \div spacing
        inCell(k) == LET here(c) == ci(c) = k - 1 IN SelectSeq(found, here)
        taken(k) == inCell(k) # <<>>
        used == SelectSeq([k \in 1..(gridW * gridH) |-> k], taken)
    IN  [n \in 1..Len(used) |->
            LET best == bestOf(inCell(used[n]))
            IN  [x |-> best.index % width, y |-> best.index \div width, type |-> type,
                 value |-> pointValue(best.score, times, plus)]]

\* The scored cells of a scan, in scan order.
\* qualifies[i] tells whether cell i passes the tests, score[i] is its score.
scored(cells, qualifies, score) ==
    LET passes(i) == qualifies[i]
        kept == SelectSeq(cells, passes)
    IN  [k \in 1..Len(kept) |-> [index |-> kept[k], score |-> score[kept[k]]]]

findRiverCrossings(elev, mask, isLand, width, height, seaLevel, config) ==
    LET land(i) == isLand[i] # 0
        river(i) == mask[i] # 0
        opposingSides(i) ==
            \/ /\ land(i - width) /\ land(i + width)
               /\ (~land(i - 1) \/ ~land(i + 1) \/ river(i - 1) \/ river(i + 1))
            \/ /\ land(i - 1) /\ land(i + 1)
               /\ (~land(i - width) \/ ~land(i + width) \/ river(i - width)
                   \/ river(i + width))
        qualifies(i) == river(i) /\ land(i) /\ opposingSides(i)
        score(i) == [num |-> 1000 - elev[i], den |-> 1000 - seaLevel]
    IN  detected(scored(scan(1, width - 1, 1, 1, height - 1, 1, width),
                        [i \in 0..(width * height - 1) |-> qualifies(i)],
                        [i \in 0..(width * height - 1) |-> score(i)]),
                 width, height, config.riverCrossingRadius * 3, "river_crossing", 8, 2)

findMountainPasses(elev, isLand, width, height, biomeConfig, config) ==
    LET r == config.mountainPassRadius
        around(i) ==
            { d \in { -r + 3 * k : k \in 0..((2 * r) \div 3) }
                    \X { -r + 3 * k : k \in 0..((2 * r) \div 3) } :
                /\ d # <<0, 0>>
                /\ (i % width) + d[1] >= 0 /\ (i % width) + d[1] < width
                /\ (i \div width) + d[2] >= 0 /\ (i \div width) + d[2] < height }
        higher(i) ==
            { d \in around(i) :
                elev[((i \div width) + d[2]) * width + (i % width) + d[1]] > elev[i] + 30 }
        qualifies(i) ==
            /\ isLand[i] # 0
            /\ ~(elev[i] >= biomeConfig.mountainElevation)
            /\ ~(elev[i] * 1000 < biomeConfig.highlandElevation * 850)
            /\ around(i) # {}
            /\ ~(Cardinality(higher(i)) * 100 < 55 * Cardinality(around(i)))
        score(i) == [num |-> Cardinality(higher(i)) * elev[i],
                     den |-> Cardinality(around(i)) * biomeConfig.mountainElevation]
    IN  detected(scored(scan(r, width - r, 2, r, height - r, 2, width),
                        [i \in 0..(width * height - 1) |-> qualifies(i)],
                        [i \in 0..(width * height - 1) |-> score(i)]),
                 width, height, r * 4, "mountain_pass", 10, 0)

\* The distance d in 1..maxW of the first land cell from (x, y) in the
\* direction (sx, sy), 0 when there is none.
landDistance(isLand, x, y, sx, sy, maxW, width, height) ==
    LET hits == { d \in 1..maxW :
                    /\ x + d * sx >= 0 /\ x + d * sx < width
                    /\ y + d * sy >= 0 /\ y + d * sy < height
                    /\ isLand[(y + d * sy) * width + x + d * sx] # 0 }
    IN  IF hits = {} THEN 0 ELSE CHOOSE d \in hits : \A e \in hits : d <= e

findStraits(isLand, width, height, config) ==
    LET maxW == config.straitMaxWidth
        dist(i, sx, sy) ==
            landDistance(isLand, i % width, i \div width, sx, sy, maxW, width, height)
        across(i) == dist(i, 0, -1) + dist(i, 0, 1)
        along(i) == dist(i, -1, 0) + dist(i, 1, 0)
        horizontal(i) ==
            /\ isLand[i] = 0
            /\ dist(i, 0, -1) # 0 /\ dist(i, 0, 1) # 0
            /\ 2 * maxW - across(i) > 0
        vertical(i) ==
            /\ isLand[i] = 0
            /\ dist(i, -1, 0) # 0 /\ dist(i, 1, 0) # 0
            /\ 2 * maxW - along(i) > 0
        acrossScore(i) == [num |-> 2 * maxW - across(i), den |-> 2 * maxW]
        alongScore(i) == [num |-> 2 * maxW - along(i), den |-> 2 * maxW]
    IN  detected(scored(scan(1, width - 1, 2, maxW, height - maxW, 2, width),
                        [i \in 0..(width * height - 1) |-> horizontal(i)],
                        [i \in 0..(width * height - 1) |-> acrossScore(i)])
                 \o scored(scan(maxW, width - maxW, 2, 1, height - 1, 2, width),
                           [i \in 0..(width * height - 1) |-> vertical(i)],
                           [i \in 0..(width * height - 1) |-> alongScore(i)]),
                 width, height, maxW * 4, "strait", 8, 2)

findPeninsulas(isLand, width, height, config) ==
    LET r == config.peninsulaRadius
        inside(x, y) == x >= 0 /\ y >= 0 /\ x < width /\ y < height
        sampled(i) ==
            { d \in { -r + 2 * k : k \in 0..r } \X { -r + 2 * k : k \in 0..r } :
                /\ d[1] * d[1] + d[2] * d[2] <= r * r
                /\ inside((i % width) + d[1], (i \div width) + d[2]) }
        water(i) ==
            { d \in sampled(i) :
                isLand[((i \div width) + d[2]) * width + (i % width) + d[1]] = 0 }
        nearLand(i) ==
            Cardinality({ d \in (-3..3) \X (-3..3) :
                            /\ d # <<0, 0>>
                            /\ inside((i % width) + d[1], (i \div width) + d[2])
                            /\ isLand[((i \div width) + d[2]) * width
                                      + (i % width) + d[1]] # 0 })
        qualifies(i) ==
            /\ isLand[i] # 0
            /\ sampled(i) # {}
            /\ ~(Cardinality(water(i)) * 1000
                 < config.peninsulaMinRatio * Cardinality(sampled(i)))
            /\ ~(nearLand(i) < 4)
        score(i) == [num |-> Cardinality(water(i)), den |-> Cardinality(sampled(i))]
    IN  detected(scored(scan(r, width - r, 3, r, height - r, 3, width),
                        [i \in 0..(width * height - 1) |-> qualifies(i)],
                        [i \in 0..(width * height - 1) |-> score(i)]),
                 width, height, r * 5, "peninsula", 10, 0)

\* A valueMap that the second loops leave as allocated.
valuesOf_Unwritten(points, width, height) ==
    [i \in 0..(width * height - 1) |-> 0]

\* valueMap after the second loops of the four detectors.
valuesOf(points, width, height) ==
    [i \in 0..(width * height - 1) |->
        LET here == { points[k].value : k \in { n \in 1..Len(points) :
                          points[n].y * width + points[n].x = i } }
        IN  IF here = {} THEN 0 ELSE CHOOSE v \in here : \A u \in here : u <= v]

detectStrategicPoints(elev, mask, terr, biomeConfig, config) ==
    LET isLand == Layer([i \in 0..(terr.width * terr.height - 1) |->
                            IF elev[i] > terr.seaLevel THEN 1 ELSE 0])
        points == findRiverCrossings(elev, mask, isLand, terr.width, terr.height,
                                     terr.seaLevel, config)
                  \o findMountainPasses(elev, isLand, terr.width, terr.height,
                                        biomeConfig, config)
                  \o findStraits(isLand, terr.width, terr.height, config)
                  \o findPeninsulas(isLand, terr.width, terr.height, config)
    IN  [points |-> points, valueMap |-> valuesOf(points, terr.width, terr.height)]

(***************************************************************************)
(* The worker's 'generate' handler (the pixel buffers left out) and the    *)
(* runs of the whole pipeline: title screen, MapView's request, the        *)
(* worker, MapView's onmessage, and the store's reset to the title screen. *)
(***************************************************************************)

\* ctx.onmessage of the worker: each stage in the handler's order, then the
\* layers of its response.
generate(msg) ==
    \E generator \in { TerrainGenerator(msg.seed) } :
    \E elevationField \in { generateElevationField(generator, msg.terrain) } :
    \E adjustedTerrain \in
           { [msg.terrain EXCEPT !.seaLevel = effectiveSeaLevel(elevationField, msg)] } :
    \E distance \in { computeDistanceToWater(elevationField, adjustedTerrain.width,
                                             adjustedTerrain.height,
                                             adjustedTerrain.seaLevel) } :
    \E temperatureField \in
           { generateTemperatureField(generator, elevationField, adjustedTerrain,
                                      msg.temperature, distance) } :
    \E baseHumidityField \in
           { generateHumidityField(generator, elevationField, adjustedTerrain,
                                   msg.humidity, distance) } :
    \E samples \in { riverSamples(RiverGenerator(msg.seed), adjustedTerrain, msg.rivers) } :
    \E riverData \in { generateRivers(elevationField, baseHumidityField, adjustedTerrain,
                                      msg.rivers, samples) } :
    \E biomeNoiseField \in
           { generateBiomeNoiseField(generator, msg.biomeNoise, adjustedTerrain) } :
    \E ids \in { Layer(buildBiomeMap(elevationField, temperatureField, riverData.humidity,
                                     biomeNoiseField, adjustedTerrain.width,
                                     adjustedTerrain.height, adjustedTerrain.seaLevel,
                                     msg.biomes)) } :
    \E noises \in { resourceSamples(msg.seed, adjustedTerrain.width,
                                    adjustedTerrain.height, msg.resources) } :
    \E made \in { generateResources(elevationField, riverData.humidity, ids,
                                    riverData.riverMask, adjustedTerrain.width,
                                    adjustedTerrain.height, adjustedTerrain.seaLevel,
                                    noises.ore, noises.dens, msg.resources) } :
    \E strategicData \in
           { detectStrategicPoints(elevationField, riverData.riverMask, adjustedTerrain,
                                   msg.biomes, msg.strategic) } :
        /\ terrain' = adjustedTerrain
        /\ elevation' = elevationField
        /\ waterDistance' = distance
        /\ temperature' = temperatureField
        /\ baseHumidity' = baseHumidityField
        /\ riverNoise' = samples
        /\ riverMask' = riverData.riverMask
        /\ riverWidth' = riverData.riverWidth
        /\ humidity' = riverData.humidity
        /\ variation' = biomeNoiseField
        /\ biomeIds' = ids
        /\ oreNoise' = noises.ore
        /\ densityNoise' = noises.dens
        /\ resourceType' = made.resourceType
        /\ resourceDensity' = made.resourceDensity
        /\ strategicPoints' = strategicData.points
        /\ valueMap' = strategicData.valueMap

PipeW == 17
PipeH == 13
MaxRuns == 2

\* defaultConfig on a small map: the noise, biome and resource blocks as in
\* Config.ts, the radii, thresholds and spacing sized for the map.
MainlandConfig ==
    [map |-> [width |-> PipeW, height |-> PipeH, seaLevel |-> 370,
              minLandRatio |-> 250, islandMode |-> FALSE],
     elevation |-> [scale |-> 800, octaves |-> 5, persistence |-> 520,
                    lacunarity |-> 2000, continentScale |-> 200,
                    continentStrength |-> 500, oceanScale |-> 120,
                    oceanStrength |-> 100, redistributionPower |-> 1],
     temperature |-> [scale |-> 2500, octaves |-> 3, persistence |-> 500,
                      lacunarity |-> 2000, latitudeStrength |-> 650,
                      elevationCooling |-> 550, continentalStrength |-> 300],
     humidity |-> [scale |-> 4000, octaves |-> 3, persistence |-> 450,
                   lacunarity |-> 2000, coastalInfluence |-> 450,
                   elevationDrying |-> 450],
     rivers |-> [primaryScale |-> 900, secondaryScale |-> 4000, warpStrength |-> 40,
                 noiseOctaves |-> 3, noisePersistence |-> 500,
                 noiseLacunarity |-> 2200, primaryThreshold |-> 250,
                 secondaryThreshold |-> 150, primaryWidth |-> 4, secondaryWidth |-> 2,
                 humidityBoost |-> 180, humidityRadius |-> 3, mountainCutoff |-> 820,
                 shoreTaper |-> 100],
     strategic |-> [riverCrossingRadius |-> 1, mountainPassRadius |-> 3,
                    straitMaxWidth |-> 2, peninsulaMinRatio |-> 600,
                    peninsulaRadius |-> 2],
     biomeNoise |-> [scale |-> 6000, octaves |-> 2, persistence |-> 500,
                     lacunarity |-> 2000],
     biomes |-> DefaultBiomes,
     resources |-> DefaultResources,
     nations |-> [count |-> 12, minSpacing |-> 4]]

\* The same with island mode, a squared redistribution, no land guarantee and
\* the river thresholds of Config.ts.
IslandConfig ==
    [MainlandConfig EXCEPT !.map = [width |-> PipeW, height |-> PipeH, seaLevel |-> 200,
                                    islandMode |-> TRUE],
                           !.elevation.redistributionPower = 2,
                           !.rivers.primaryThreshold = 32,
                           !.rivers.secondaryThreshold = 20]

PipelineConfigs == { MainlandConfig, IslandConfig }

InitPipeline ==
    /\ pc = "title"
    /\ defaultConfig \in PipelineConfigs
    /\ entropy \in Entropies
    /\ nationsConfig = defaultConfig.nations
    /\ seed = Unset
    /\ request = Unset
    /\ terrain = Unset /\ elevation = Unset /\ humidity = Unset
    /\ BiomeUnset /\ WaterUnset /\ RiverUnset /\ ResourceUnset
    /\ rng = NoGenerator
    /\ nameGen = [rng |-> NoGenerator, usedNames |-> {}]
    /\ colorGen = [rng |-> NoGenerator, usedColors |-> <<>>, hueOffset |-> 0, index |-> 0]
    /\ flagGen = [rng |-> NoGenerator]
    /\ nations = <<>>
    /\ ownerMap = Unset
    /\ ownership = Unset
    /\ strategicPoints = <<>>
    /\ valueMap = Unset
    /\ runs = <<>>
    /\ scanned = Unset /\ detector = Unset /\ store = Unset /\ views = Unset
    /\ tile = Unset /\ simulation = Unset /\ returned = Unset

\* TitleScreen.handleNewWorld with the seed s typed in.
handleNewWorld(s) ==
    /\ pc = "title"
    /\ Len(runs) < MaxRuns
    /\ seed' = s
    /\ pc' = "generating"
    /\ UNCHANGED <<fieldVars, humidity, biomeVars, waterVars, riverVars, resourceVars,
                   entropy, nationsConfig, generatorVars, nations, ownerMap, ownership,
                   request, strategicPoints, valueMap, runs, defaultConfig,
                   detectorVars, storeVars, uiVars>>

\* MapView's effect on mount: the request posted to a new worker.
PostRequest ==
    /\ pc = "generating"
    /\ request' =
           [type |-> "generate", seed |-> seed,
            terrain |-> [width |-> defaultConfig.map.width,
                         height |-> defaultConfig.map.height,
                         seaLevel |-> defaultConfig.map.seaLevel,
                         islandMode |-> defaultConfig.map.islandMode]
                        @@ defaultConfig.elevation,
            temperature |-> defaultConfig.temperature,
            humidity |-> defaultConfig.humidity,
            biomeNoise |-> defaultConfig.biomeNoise,
            rivers |-> defaultConfig.rivers,
            biomes |-> defaultConfig.biomes,
            strategic |-> defaultConfig.strategic,
            resources |-> defaultConfig.resources]
           @@ (IF "minLandRatio" \in DOMAIN defaultConfig.map
               THEN [minLandRatio |-> defaultConfig.map.minLandRatio]
               ELSE <<>>)
    /\ pc' = "requested"
    /\ UNCHANGED <<fieldVars, humidity, biomeVars, waterVars, riverVars, resourceVars,
                   nationVars, strategicPoints, valueMap, runs, defaultConfig,
                   detectorVars, storeVars, uiVars>>

\* The worker's onmessage on the request.
WorkerGenerate ==
    /\ pc = "requested"
    /\ generate(request)
    /\ biomes' = request.biomes
    /\ rivers' = request.rivers
    /\ resources' = request.resources
    /\ pc' = "done"
    /\ UNCHANGED <<seed, entropy, nationsConfig, generatorVars, nations, ownerMap,
                   ownership, request, runs, defaultConfig,
                   detectorVars, storeVars, uiVars>>

\* What a run has produced, with the request and the nation settings.
Outcome ==
    [request |-> request, nationsConfig |-> nationsConfig,
     result |-> [seaLevel |-> terrain.seaLevel, elevation |-> elevation,
                 temperature |-> temperature, humidity |-> humidity,
                 biomeIds |-> biomeIds, riverMask |-> riverMask,
                 riverWidth |-> riverWidth, resourceType |-> resourceType,
                 resourceDensity |-> resourceDensity, ownership |-> ownership,
                 strategicPoints |-> strategicPoints, valueMap |-> valueMap,
                 nations |-> nations]]

\* MapView's onmessage on the worker's response, to setPhase('playing').
OnDone ==
    /\ pc = "done"
    /\ onmessage
    /\ pc' = "playing"
    /\ UNCHANGED <<fieldVars, humidity, biomeVars, waterVars, riverVars, resourceVars,
                   seed, entropy, nationsConfig, request, strategicPoints, valueMap,
                   defaultConfig,
                   detectorVars, storeVars, uiVars>>
    /\ runs' = Append(runs, Outcome')

\* The store's reset: back to the title screen, the world dropped.
reset ==
    /\ pc = "playing"
    /\ pc' = "title"
    /\ seed' = Unset
    /\ nations' = <<>>
    /\ strategicPoints' = <<>>
    /\ terrain' = Unset /\ elevation' = Unset /\ humidity' = Unset
    /\ temperature' = Unset /\ variation' = Unset /\ biomeIds' = Unset
    /\ waterDistance' = Unset
    /\ baseHumidity' = Unset /\ riverNoise' = Unset /\ riverMask' = Unset
    /\ riverWidth' = Unset
    /\ oreNoise' = Unset /\ densityNoise' = Unset /\ resourceType' = Unset
    /\ resourceDensity' = Unset
    /\ ownership' = Unset /\ valueMap' = Unset
    /\ UNCHANGED <<biomes, rivers, resources, entropy, nationsConfig, generatorVars,
                   ownerMap, request, runs, defaultConfig,
                   detectorVars, storeVars, uiVars>>

NextPipeline ==
    \/ \E s \in Seeds : handleNewWorld(s)
    \/ PostRequest
    \/ WorkerGenerate
    \/ OnDone
    \/ reset

SpecPipeline == InitPipeline /\ [][NextPipeline]_vars

BucketW == 8
BucketH == 3
MaxScored == 3

\* The denominator of the drawn scores: one float32 step at 3/4 is 4 / Fine.
Fine == 2 ^ 26

\* 3/4 and the four doubles after it in steps of a quarter float32 step, and
\* one score far from them.
BucketScores ==
    { [num |-> 3 * (Fine \div 4) + k, den |-> Fine] : k \in 0..4 }
        \cup { [num |-> Fine \div 4, den |-> Fine] }

BucketStrategic ==
    [riverCrossingRadius |-> 1, mountainPassRadius |-> 1, straitMaxWidth |-> 1,
     peninsulaMinRatio |-> 600, peninsulaRadius |-> 1]

\* The scan, grid spacing and value formula of the two detectors whose score
\* is computed from the elevation.
Detectors(width, height, config) ==
    { [type |-> "river_crossing",
       cells |-> scan(1, width - 1, 1, 1, height - 1, 1, width),
       spacing |-> config.riverCrossingRadius * 3, times |-> 8, plus |-> 2],
      [type |-> "mountain_pass",
       cells |-> scan(config.mountainPassRadius, width - config.mountainPassRadius, 2,
                      config.mountainPassRadius, height - config.mountainPassRadius, 2,
                      width),
       spacing |-> config.mountainPassRadius * 4, times |-> 10, plus |-> 0] }

\* The scored cells a scan can leave: up to MaxScored of its cells, in scan
\* order, each with a score.
Scored(cells) ==
    UNION { { [k \in 1..Len(kept) |-> [index |-> kept[k], score |-> score[k]]] :
                score \in [1..Len(kept) -> BucketScores] } :
            kept \in { LET picked(c) == c \in some IN SelectSeq(cells, picked) :
                         some \in { s \in SUBSET { cells[k] : k \in 1..Len(cells) } :
                                      Cardinality(s) \in 1..MaxScored } } }

InitBuckets ==
    /\ pc = "scanned"
    /\ terrain = [width |-> BucketW, height |-> BucketH]
    /\ detector \in Detectors(BucketW, BucketH, BucketStrategic)
    /\ scanned \in Scored(detector.cells)
    /\ strategicPoints = <<>>
    /\ valueMap = [i \in 0..(BucketW * BucketH - 1) |-> 0]
    /\ elevation = Unset /\ humidity = Unset
    /\ BiomeUnset /\ WaterUnset /\ RiverUnset /\ ResourceUnset /\ NationUnset
    /\ request = Unset /\ runs = Unset /\ defaultConfig = Unset
    /\ store = Unset /\ views = Unset
    /\ tile = Unset /\ simulation = Unset /\ returned = Unset

\* The two loops of the detector after its scan, and the valueMap entries
\* that the second loop writes.
BestPerCell ==
    /\ pc = "scanned"
    /\ \E points \in { detected(scanned, terrain.width, terrain.height, detector.spacing,
                                detector.type, detector.times, detector.plus) } :
           /\ strategicPoints' = points
           /\ valueMap' = valuesOf(points, terrain.width, terrain.height)
    /\ pc' = "detected"
    /\ UNCHANGED <<fieldVars, humidity, biomeVars, waterVars, riverVars, resourceVars,
                   nationVars, request, runs, defaultConfig,
                   detectorVars, storeVars, uiVars>>

NextBuckets == BestPerCell

SpecBuckets == InitBuckets /\ [][NextBuckets]_vars

\* The grid cell of a map cell.
bucketOf(index) ==
    <<(index % terrain.width) \div detector.spacing,
      (index \div terrain.width) \div detector.spacing>>

\* C11: a detector returns at most one point per spatial bucket, and that
\* point is a candidate whose score is the maximum over all the candidates
\* of the detector in the bucket.
C11_BestOfBucket ==
    pc = "detected" =>
        \A n \in 1..Len(strategicPoints) :
            LET at == strategicPoints[n].y * terrain.width + strategicPoints[n].x
                inBucket == { k \in 1..Len(scanned) :
                                bucketOf(scanned[k].index) = bucketOf(at) }
            IN  /\ \A m \in 1..Len(strategicPoints) :
                       bucketOf(strategicPoints[m].y * terrain.width + strategicPoints[m].x)
                           = bucketOf(at) => m = n
                /\ \E k \in inBucket :
                       /\ scanned[k].index = at
                       /\ \A other \in inBucket :
                              ~scoreGreater(scanned[other].score, scanned[k].score)

(***************************************************************************)
(* detectStrategicPoints on small maps: every row of the map is one of a   *)
(* few rows of water, lowland, highland and peaks, and the river mask is   *)
(* empty, a column or a row of the land.                                   *)
(***************************************************************************)

StratW == 7
StratH == 5

\* Rows of elevations below the sea level, of lowland, between the highland
\* band's lower end and the mountain threshold, and above the mountain
\* threshold.
StrategicRows ==
    LET Sea == 300
        Low == 500
        High == 700
        Peak == 900
    IN  { <<Sea, Sea, Sea, Sea, Sea, Sea, Sea>>,
          <<Low, Low, Low, Low, Low, Low, Low>>,
          <<Peak, Peak, Low, Peak, Peak, Peak, Sea>>,
          <<Sea, Low, High, Sea, Sea, Low, Low>> }

\* The elevation layer whose rows are the given ones, a row repeated from
\* its start where the map is wider than the row.
mapOfRows(rows, width) ==
    Layer([i \in 0..(width * Len(rows) - 1) |->
              rows[(i \div width) + 1][((i % width) % Len(rows[(i \div width) + 1])) + 1]])

\* River masks: no river, the river cells of a column, of a row (rivers are
\* marked on land only).
StrategicMasks(elev, width, height, seaLevel) ==
    { Layer([i \in 0..(width * height - 1) |-> 0]),
      Layer([i \in 0..(width * height - 1) |->
                IF i % width = 3 /\ elev[i] > seaLevel THEN 1 ELSE 0]),
      Layer([i \in 0..(width * height - 1) |->
                IF i \div width = 2 /\ elev[i] > seaLevel THEN 1 ELSE 0]) }

StrategicConfig ==
    [riverCrossingRadius |-> 1, mountainPassRadius |-> 2, straitMaxWidth |-> 2,
     peninsulaMinRatio |-> 600, peninsulaRadius |-> 2]

InitStrategic ==
    /\ pc = "generated"
    /\ terrain = [width |-> StratW, height |-> StratH, seaLevel |-> 370]
    /\ elevation \in { mapOfRows(rows, StratW) : rows \in [1..StratH -> StrategicRows] }
    /\ riverMask \in StrategicMasks(elevation, StratW, StratH, 370)
    /\ biomes = DefaultBiomes
    /\ request = [strategic |-> StrategicConfig]
    /\ strategicPoints = <<>>
    /\ valueMap = Unset
    /\ humidity = Unset /\ temperature = Unset /\ variation = Unset /\ biomeIds = Unset
    /\ WaterUnset
    /\ baseHumidity = Unset /\ rivers = Unset /\ riverNoise = Unset /\ riverWidth = Unset
    /\ ResourceUnset /\ NationUnset
    /\ runs = Unset /\ defaultConfig = Unset
    /\ scanned = Unset /\ detector = Unset /\ store = Unset /\ views = Unset
    /\ tile = Unset /\ simulation = Unset /\ returned = Unset

\* The worker's call of detectStrategicPoints.
DetectStrategicPoints ==
    /\ pc = "generated"
    /\ \E strategicData \in { detectStrategicPoints(elevation, riverMask, terrain, biomes,
                                                    request.strategic) } :
           /\ strategicPoints' = strategicData.points
           /\ valueMap' = strategicData.valueMap
    /\ pc' = "detected"
    /\ UNCHANGED <<fieldVars, humidity, biomeVars, waterVars, riverVars, resourceVars,
                   nationVars, request, runs, defaultConfig,
                   detectorVars, storeVars, uiVars>>

NextStrategic == DetectStrategicPoints

SpecStrategic == InitStrategic /\ [][NextStrategic]_vars

\* Whether (x, y) is a land cell of the map.
landAt(x, y) ==
    /\ x >= 0 /\ y >= 0 /\ x < terrain.width /\ y < terrain.height
    /\ elevation[y * terrain.width + x] > terrain.seaLevel

\* The water cells and all cells among the samples of the neighbourhood of
\* (x, y): every second cell within the peninsula radius, on the map.
waterRatio(x, y) ==
    LET r == request.strategic.peninsulaRadius
        sampled == { d \in (-r..r) \X (-r..r) :
                       /\ (d[1] + r) % 2 = 0 /\ (d[2] + r) % 2 = 0
                       /\ d[1] * d[1] + d[2] * d[2] <= r * r
                       /\ x + d[1] >= 0 /\ x + d[1] < terrain.width
                       /\ y + d[2] >= 0 /\ y + d[2] < terrain.height }
    IN  [water |-> Cardinality({ d \in sampled : ~landAt(x + d[1], y + d[2]) }),
         total |-> Cardinality(sampled)]

\* The defining conditions of the categories other than the peninsula.
categoryHolds(p) ==
    LET maxW == request.strategic.straitMaxWidth
    IN  CASE p.type = "river_crossing" ->
                 /\ riverMask[p.y * terrain.width + p.x] # 0
                 /\ landAt(p.x, p.y)
                 /\ \/ landAt(p.x, p.y - 1) /\ landAt(p.x, p.y + 1)
                    \/ landAt(p.x - 1, p.y) /\ landAt(p.x + 1, p.y)
          [] p.type = "mountain_pass" ->
                 /\ landAt(p.x, p.y)
                 /\ elevation[p.y * terrain.width + p.x] < biomes.mountainElevation
          [] p.type = "strait" ->
                 /\ ~landAt(p.x, p.y)
                 /\ \/ /\ \E d \in 1..maxW : landAt(p.x, p.y - d)
                       /\ \E d \in 1..maxW : landAt(p.x, p.y + d)
                    \/ /\ \E d \in 1..maxW : landAt(p.x - d, p.y)
                       /\ \E d \in 1..maxW : landAt(p.x + d, p.y)
          [] p.type = "peninsula" -> landAt(p.x, p.y)

\* C12: every returned point satisfies its category's condition at its own
\* cell; a peninsula is a land cell whose neighbourhood water ratio is above
\* the configured threshold.
C12_CategoryAtCell ==
    pc = "detected" =>
        \A n \in 1..Len(strategicPoints) :
            /\ categoryHolds(strategicPoints[n])
            /\ strategicPoints[n].type = "peninsula" =>
                   LET ratio == waterRatio(strategicPoints[n].x, strategicPoints[n].y)
                   IN  ratio.water * 1000 > request.strategic.peninsulaMinRatio * ratio.total

\* C12, amended: every returned point satisfies its category's condition at
\* its own cell; a peninsula is a land cell whose neighbourhood water ratio
\* is at least the configured threshold.
C12_CategoryAtCellAtLeast ==
    pc = "detected" =>
        \A n \in 1..Len(strategicPoints) :
            /\ categoryHolds(strategicPoints[n])
            /\ strategicPoints[n].type = "peninsula" =>
                   LET ratio == waterRatio(strategicPoints[n].x, strategicPoints[n].y)
                   IN  ratio.water * 1000 >= request.strategic.peninsulaMinRatio * ratio.total

\* A map with a point of every category, the peninsula's water ratio being
\* the threshold itself.
C12_Witness ==
    /\ pc = "detected"
    /\ \A type \in { "river_crossing", "mountain_pass", "strait", "peninsula" } :
           \E n \in 1..Len(strategicPoints) : strategicPoints[n].type = type
    /\ \E n \in 1..Len(strategicPoints) :
           /\ strategicPoints[n].type = "peninsula"
           /\ LET ratio == waterRatio(strategicPoints[n].x, strategicPoints[n].y)
              IN  ratio.water * 1000 = request.strategic.peninsulaMinRatio * ratio.total

\* C15: every returned strategic point has an integer value from 1 to 10, and
\* every entry of the value map is from 0 to 10 and is 0 exactly at the cells
\* that carry no returned point.
C15_ValuesInRange ==
    pc = "detected" =>
        /\ \A n \in 1..Len(strategicPoints) : strategicPoints[n].value \in 1..10
        /\ \A i \in 0..(terrain.width * terrain.height - 1) :
               /\ valueMap[i] \in 0..10
               /\ valueMap[i] = 0 <=>
                      ~\E n \in 1..Len(strategicPoints) :
                           strategicPoints[n].y * terrain.width + strategicPoints[n].x = i

\* Points of all four categories, of at least three different values.
C15_Witness ==
    /\ pc = "detected"
    /\ Cardinality({ strategicPoints[n].type : n \in 1..Len(strategicPoints) }) = 4
    /\ Cardinality({ strategicPoints[n].value : n \in 1..Len(strategicPoints) }) >= 3
    /\ \E i \in 0..(terrain.width * terrain.height - 1) : valueMap[i] = 0

(***************************************************************************)
(* The fields of the worker's first stages on their own: elevation, then   *)
(* water distance, temperature and humidity, then the rivers and the       *)
(* river-boosted humidity, for requests whose strengths and weights are    *)
(* inside and outside 0..1.                                                *)
(***************************************************************************)

FieldW == 5
FieldH == 4

\* The request of a small map with the default blocks.
FieldRequest ==
    [terrain |-> [width |-> FieldW, height |-> FieldH, seaLevel |-> 370,
                  islandMode |-> FALSE] @@ MainlandConfig.elevation,
     temperature |-> MainlandConfig.temperature,
     humidity |-> MainlandConfig.humidity,
     rivers |-> MainlandConfig.rivers,
     minLandRatio |-> 250]

\* Requests: the default; no octaves; strengths above 1 and a negative ocean
\* strength, cooling and drying; negative strengths and persistence; island
\* mode with a squared redistribution; redistribution powers 0 and -1.
FieldRequests ==
    { FieldRequest,
      [FieldRequest EXCEPT !.terrain.octaves = 0, !.temperature.octaves = 0,
                           !.humidity.octaves = 0],
      [FieldRequest EXCEPT !.terrain.continentStrength = 1500,
                           !.terrain.oceanStrength = -2000,
                           !.temperature.latitudeStrength = 1500,
                           !.temperature.elevationCooling = -550,
                           !.humidity.coastalInfluence = 2000,
                           !.humidity.elevationDrying = -450,
                           !.rivers.humidityBoost = 1500],
      [FieldRequest EXCEPT !.terrain.continentStrength = -500,
                           !.terrain.persistence = -500,
                           !.temperature.latitudeStrength = -500,
                           !.temperature.continentalStrength = 3000,
                           !.temperature.persistence = -500,
                           !.humidity.coastalInfluence = -1000,
                           !.humidity.persistence = -500,
                           !.rivers.humidityBoost = -300],
      [FieldRequest EXCEPT !.terrain.islandMode = TRUE,
                           !.terrain.redistributionPower = 2],
      [FieldRequest EXCEPT !.terrain.redistributionPower = 0],
      [FieldRequest EXCEPT !.terrain.redistributionPower = -1] }

InitFields ==
    /\ pc = "requested"
    /\ entropy \in Entropies
    /\ seed \in Seeds
    /\ request \in { [type |-> "generate", seed |-> seed] @@ msg : msg \in FieldRequests }
    /\ terrain = Unset /\ elevation = Unset /\ humidity = Unset
    /\ BiomeUnset /\ WaterUnset /\ RiverUnset /\ ResourceUnset
    /\ nationsConfig = Unset /\ rng = Unset /\ nameGen = Unset /\ colorGen = Unset
    /\ flagGen = Unset /\ nations = Unset /\ ownerMap = Unset /\ ownership = Unset
    /\ strategicPoints = Unset /\ valueMap = Unset /\ runs = Unset
    /\ defaultConfig = Unset
    /\ scanned = Unset /\ detector = Unset /\ store = Unset /\ views = Unset
    /\ tile = Unset /\ simulation = Unset /\ returned = Unset

\* The worker's elevation stage and its land-fraction guarantee.
GenerateElevation ==
    /\ pc = "requested"
    /\ \E elevationField \in { generateElevationField(TerrainGenerator(request.seed),
                                                      request.terrain) } :
           /\ elevation' = elevationField
           /\ terrain' = [request.terrain EXCEPT
                              !.seaLevel = effectiveSeaLevel(elevationField, request)]
    /\ pc' = "elevation"
    /\ UNCHANGED <<humidity, biomeVars, waterVars, riverVars, resourceVars, nationVars,
                   runVars>>

\* The worker's water-distance, temperature and humidity stages, and the
\* noise samples that RiverGenerator.generate takes.
GenerateClimate ==
    /\ pc = "elevation"
    /\ \E distance \in { computeDistanceToWater(elevation, terrain.width, terrain.height,
                                                terrain.seaLevel) } :
           /\ waterDistance' = distance
           /\ temperature' = generateTemperatureField(TerrainGenerator(request.seed),
                                                      elevation, terrain,
                                                      request.temperature, distance)
           /\ baseHumidity' = generateHumidityField(TerrainGenerator(request.seed),
                                                    elevation, terrain, request.humidity,
                                                    distance)
    /\ riverNoise' = riverSamples(RiverGenerator(request.seed), terrain, request.rivers)
    /\ rivers' = request.rivers
    /\ pc' = "rivers"
    /\ UNCHANGED <<fieldVars, humidity, variation, biomes, biomeIds, riverMask, riverWidth,
                   resourceVars, nationVars, runVars>>

NextFields == GenerateElevation \/ GenerateClimate \/ GenerateRivers

SpecFields == InitFields /\ [][NextFields]_vars

\* Every value of a field that has been generated is in [0,1].
inUnitRange(field) == field # Unset => \A i \in DOMAIN field : field[i] \in 0..1000

\* C13: every value of the elevation, temperature and humidity fields and of
\* the river-boosted humidity field lies in [0,1], for every cell and every
\* configuration of finite parameters.
C13_FieldsInUnitRange ==
    /\ inUnitRange(elevation)
    /\ inUnitRange(temperature)
    /\ inUnitRange(baseHumidity)
    /\ inUnitRange(humidity)

(***************************************************************************)
(* generateResources at the ends of its inputs' ranges: ore and density    *)
(* noise, humidity and the rarity thresholds at 0, inside and at 1.        *)
(***************************************************************************)

InitDensity ==
    \E ore \in { 0, 500, 1000 }, dens \in { 0, 500, 1000 }, humid \in { 0, 1000 },
       gold \in { 0, 880, 1000 }, iron \in { 0, 720, 1000 }, kind \in ProbeBiomes,
       wet \in { -1, 1 }, stream \in { -1, 1 } :
        /\ pc = "resources"
        /\ terrain = [width |-> ResW, height |-> ResH, seaLevel |-> 370]
        /\ elevation = [i \in ResCells |->
                          IF i = wet THEN 300 ELSE IF i = 0 /\ kind = 25 THEN 900 ELSE 600]
        /\ humidity = [i \in ResCells |-> humid]
        /\ biomeIds = [i \in ResCells |-> IF i = wet THEN 1 ELSE IF i = 0 THEN kind ELSE 12]
        /\ riverMask = [i \in ResCells |-> IF i = stream /\ i # wet THEN 1 ELSE 0]
        /\ resources = [DefaultResources EXCEPT !.goldRarity = gold, !.ironRarity = iron]
        /\ oreNoise = [i \in ResCells |-> ore]
        /\ densityNoise = [i \in ResCells |-> dens]
        /\ resourceType = Unset /\ resourceDensity = Unset
        /\ temperature = Unset /\ variation = Unset /\ biomes = Unset
        /\ baseHumidity = Unset /\ rivers = Unset /\ riverNoise = Unset
        /\ riverWidth = Unset
        /\ WaterUnset /\ NationUnset /\ RunUnset

SpecDensity == InitDensity /\ [][NextResources]_vars

\* What the main loop computes for cell i before the store.
computedAt(i) ==
    resourceAt(biomeIds[i],
               nearRiver(riverMask, terrain.width, terrain.height)[i],
               nearWater(elevation, terrain.width, terrain.height, terrain.seaLevel)[i],
               oreNoise[i], densityNoise[i], humidity[i], resources)

\* C14: every resource density that generateResources computes is an integer
\* in 0..255 before it is stored, so that the Uint8Array holds the computed
\* value itself.
C14_DensityFitsByte ==
    pc = "done" =>
        \A i \in ResCells :
            elevation[i] > terrain.seaLevel =>
                /\ computedAt(i).density \in 0..255
                /\ resourceDensity[i] = computedAt(i).density

\* Gold at its largest density (ore noise 1, rarity 0) and fertile soil at its
\* smallest (density noise 0, humidity 0) on one map.
C14_Witness ==
    /\ pc = "done"
    /\ resourceType[0] = ResourceType.Gold /\ resourceDensity[0] = 230
    /\ \E i \in ResCells :
           resourceType[i] = ResourceType.Fertile /\ resourceDensity[i] = 20

(***************************************************************************)
(* The land-fraction guarantee of the worker on its own, on maps whose     *)
(* columns are each at one of a few elevations, the last row at another    *)
(* one or as the columns.                                                  *)
(***************************************************************************)

LandW == 4
LandH == 4

\* Elevations under the safety minimum of the sea level, under the sea level,
\* and above it.
LandLevels == { 40, 200, 300, 500 }

InitLand ==
    \E columns \in [0..(LandW - 1) -> LandLevels], last \in LandLevels \cup { 0 },
       ratio \in { 250, 500, 1000 } :
        /\ pc = "elevation"
        /\ request = [terrain |-> [width |-> LandW, height |-> LandH, seaLevel |-> 370],
                      minLandRatio |-> ratio]
        /\ elevation = [i \in 0..(LandW * LandH - 1) |->
                          IF last # 0 /\ i \div LandW = LandH - 1 THEN last
                          ELSE columns[i % LandW]]
        /\ terrain = Unset /\ humidity = Unset
        /\ BiomeUnset /\ WaterUnset /\ RiverUnset /\ ResourceUnset /\ NationUnset
        /\ strategicPoints = Unset /\ valueMap = Unset /\ runs = Unset
        /\ defaultConfig = Unset
        /\ scanned = Unset /\ detector = Unset /\ store = Unset /\ views = Unset
        /\ tile = Unset /\ simulation = Unset /\ returned = Unset

\* The worker's land-fraction guarantee and the terrain it patches.
AdjustSeaLevel ==
    /\ pc = "elevation"
    /\ terrain' = [request.terrain EXCEPT !.seaLevel = effectiveSeaLevel(elevation, request)]
    /\ pc' = "adjusted"
    /\ UNCHANGED <<elevation, humidity, biomeVars, waterVars, riverVars, resourceVars,
                   nationVars, runVars>>

NextLand == AdjustSeaLevel

SpecLand == InitLand /\ [][NextLand]_vars

\* The number of cells above a sea level.
landCells(seaLevel) == Cardinality({ i \in DOMAIN elevation : elevation[i] > seaLevel })

\* C19: when the elevation field has fewer land cells than minLandRatio
\* requires, then after the worker's adjustment the fraction of cells above
\* the effective sea level is at least minLandRatio, unless the effective sea
\* level has been floored at 0.05.
C19_LandFractionMet ==
    (pc = "adjusted"
     /\ landCells(request.terrain.seaLevel)
            < (LandW * LandH * request.minLandRatio) \div 1000) =>
        \/ terrain.seaLevel = 50
        \/ landCells(terrain.seaLevel) * 1000 >= request.minLandRatio * LandW * LandH

(***************************************************************************)
(* RiverGenerator.generate on all-land maps with humidities up to 1 and    *)
(* boosts of several strengths and radii.                                  *)
(***************************************************************************)

\* The humidity fields: graded from 0.3 to 0.5, and 0.95 next to 0.
BoostHumidities ==
    { [i \in RiverCells |-> 300 + 100 * (i % 3)],
      [i \in RiverCells |-> IF i % 2 = 0 THEN 950 ELSE 0] }

\* humidityBoost and humidityRadius: the defaults, a short reach, a strong boost.
BoostConfigs ==
    { DefaultRivers,
      [DefaultRivers EXCEPT !.humidityRadius = 1],
      [DefaultRivers EXCEPT !.humidityBoost = 500, !.humidityRadius = 2] }

InitBoost ==
    \E on \in { S \in SUBSET RiverCells : Cardinality(S) < MaxRiverCells } :
        /\ pc = "rivers"
        /\ terrain = [width |-> RiverSize.width, height |-> RiverSize.height,
                      seaLevel |-> 370]
        /\ elevation = RiverElevation("land")
        /\ baseHumidity \in BoostHumidities
        /\ rivers \in BoostConfigs
        /\ riverNoise = [p |-> [i \in RiverCells |-> IF i \in on THEN 0 ELSE 500],
                         s |-> RiverSecondary("land"),
                         wn |-> [i \in RiverCells |-> ((i % 3) - 1) * 1000]]
        /\ riverMask = Unset /\ riverWidth = Unset /\ humidity = Unset
        /\ BiomeUnset /\ WaterUnset /\ ResourceUnset /\ NationUnset /\ RunUnset

SpecBoost == InitBoost /\ [][NextRiver]_vars

\* The river cells within humidityRadius of cell i, and the squared distance
\* of cell j from cell i.
distSqOf(i, j) ==
    ((i % terrain.width) - (j % terrain.width)) * ((i % terrain.width) - (j % terrain.width))
    + ((i \div terrain.width) - (j \div terrain.width))
      * ((i \div terrain.width) - (j \div terrain.width))

reaching(i) ==
    { j \in RiverCells :
        riverMask[j] # 0 /\ distSqOf(i, j) <= rivers.humidityRadius * rivers.humidityRadius }

\* The largest boost that one river cell gives cell i (reaching(i) not empty).
largestBoost(i) ==
    CHOOSE b \in { boostAt(rivers, distSqOf(i, j)) : j \in reaching(i) } :
        \A j \in reaching(i) : boostAt(rivers, distSqOf(i, j)) <= b

\* C20: applyHumidityBoost returns a new field in which each cell is at least
\* its input and at most min(1, input + humidityBoost); a cell farther than
\* humidityRadius from every river cell keeps its input; where several river
\* cells reach a cell the result is the input raised by the largest single
\* boost (capped at 1), not by the sum; and the input field is not modified.
C20_HumidityBoost ==
    /\ [](pc = "done" =>
            \A i \in RiverCells :
                /\ humidity[i] >= baseHumidity[i]
                /\ humidity[i] <= Min(1000, baseHumidity[i] + rivers.humidityBoost)
                /\ reaching(i) = {} => humidity[i] = baseHumidity[i]
                /\ reaching(i) # {} =>
                       humidity[i] = Min(1000, baseHumidity[i] + largestBoost(i)))
    /\ [][baseHumidity' = baseHumidity]_vars

\* A cell that two river cells reach with boosts whose sum would show, a cell
\* capped at 1, and a cell beyond the reach of every river cell.
C20_Witness ==
    /\ pc = "done"
    /\ \E i \in RiverCells :
           /\ Cardinality(reaching(i)) >= 2
           /\ \E j, k \in reaching(i) :
                  j # k /\ boostAt(rivers, distSqOf(i, j)) > 0
                        /\ boostAt(rivers, distSqOf(i, k)) > 0
           /\ humidity[i] < 1000
    /\ \E i \in RiverCells : humidity[i] = 1000 /\ baseHumidity[i] < 1000
    /\ \E i \in RiverCells : reaching(i) = {} /\ \E j \in RiverCells : riverMask[j] # 0

(***************************************************************************)
(* Publication of a run in the game store.  A run is a mount of MapView:   *)
(* its effect starts a worker and sets worker.onmessage, an async function *)
(* that awaits the chunk bitmaps, then builds the world map, spawns the    *)
(* nations and calls setWorldMap, setStrategicPoints and setNations, then  *)
(* awaits the political chunks and calls setPhase('playing').  What a run  *)
(* produces is written as the number of the run; NoRun is the null world   *)
(* map and the empty lists of the store's initial state.  The code between *)
(* two awaits runs to completion, as one step.                             *)
(***************************************************************************)

MaxMounts == 2
NoRun == 0

\* useGameStore: the initial state.
InitialStore ==
    [phase |-> "title", seed |-> NoRun, worldMap |-> NoRun, strategicPoints |-> NoRun,
     nations |-> NoRun]

InitPublish ==
    /\ pc = "store"
    /\ store = InitialStore
    /\ views = <<>>
    /\ tile = Unset /\ simulation = Unset /\ returned = Unset
    /\ terrain = Unset /\ elevation = Unset /\ humidity = Unset
    /\ BiomeUnset /\ WaterUnset /\ RiverUnset /\ ResourceUnset /\ NationUnset
    /\ request = Unset /\ strategicPoints = Unset /\ valueMap = Unset /\ runs = Unset
    /\ defaultConfig = Unset /\ scanned = Unset /\ detector = Unset

\* TitleScreen.handleNewWorld: setSeed, setPhase('generating').
newWorld(s) ==
    /\ store.phase = "title"
    /\ Len(views) < MaxMounts
    /\ store' = [store EXCEPT !.seed = s, !.phase = "generating"]
    /\ UNCHANGED <<views, pc, generationVars>>

\* MapView's effect on mount: a new worker with the request posted to it and
\* onmessage set.
mount ==
    /\ store.phase # "title"
    /\ Len(views) < MaxMounts
    /\ \A n \in 1..Len(views) : ~views[n].mounted
    /\ views' = Append(views, [mounted |-> TRUE, worker |-> "running",
                               handler |-> "idle", cleanedAt |-> "never"])
    /\ UNCHANGED <<store, pc, generationVars>>

\* The worker posts its 'done' response.
workerDone(n) ==
    /\ views[n].worker = "running"
    /\ views' = [views EXCEPT ![n].worker = "posted"]
    /\ UNCHANGED <<store, pc, generationVars>>

\* The worker's handler throws: no response is posted.
workerFault(n) ==
    /\ views[n].worker = "running"
    /\ views' = [views EXCEPT ![n].worker = "failed"]
    /\ UNCHANGED <<store, pc, generationVars>>

\* worker.onmessage up to its first await (the chunks of the six views).
onmessageStart(n) ==
    /\ views[n].worker = "posted"
    /\ views[n].handler = "idle"
    /\ views' = [views EXCEPT ![n].handler = "chunks"]
    /\ UNCHANGED <<store, pc, generationVars>>

\* worker.onmessage from its first await to its second: the refs, the world
\* map, spawnNations, the three setters, the political overlay.
onmessagePublish(n) ==
    /\ views[n].handler = "chunks"
    /\ store' = [store EXCEPT !.worldMap = n, !.strategicPoints = n, !.nations = n]
    /\ views' = [views EXCEPT ![n].handler = "political"]
    /\ UNCHANGED <<pc, generationVars>>

\* worker.onmessage after its second await: the renderer's chunks,
\* setPhase('playing'), worker.terminate().
onmessageFinish(n) ==
    /\ views[n].handler = "political"
    /\ store' = [store EXCEPT !.phase = "playing"]
    /\ views' = [views EXCEPT ![n].handler = "finished", ![n].worker = "terminated"]
    /\ UNCHANGED <<pc, generationVars>>

\* An awaited createImageBitmap rejects: the handler ends where it waits.
onmessageFault(n) ==
    /\ views[n].handler \in { "chunks", "political" }
    /\ views' = [views EXCEPT ![n].handler = "failed"]
    /\ UNCHANGED <<store, pc, generationVars>>

\* The cleanup of MapView's effect: worker.terminate() (a response that has
\* not been handled is dropped) and the listeners and refs released.
cleanup(n) ==
    /\ views[n].mounted
    /\ views' = [views EXCEPT ![n].mounted = FALSE,
                              ![n].worker = "terminated",
                              ![n].cleanedAt = views[n].handler]
    /\ UNCHANGED <<store, pc, generationVars>>

\* useGameStore.reset.
storeReset ==
    /\ store.phase # "title"
    /\ store' = InitialStore
    /\ UNCHANGED <<views, pc, generationVars>>

NextPublish ==
    \/ \E s \in Seeds : newWorld(s)
    \/ mount
    \/ storeReset
    \/ \E n \in 1..Len(views) : workerDone(n)
    \/ \E n \in 1..Len(views) : workerFault(n)
    \/ \E n \in 1..Len(views) : onmessageStart(n)
    \/ \E n \in 1..Len(views) : onmessagePublish(n)
    \/ \E n \in 1..Len(views) : onmessageFinish(n)
    \/ \E n \in 1..Len(views) : onmessageFault(n)
    \/ \E n \in 1..Len(views) : cleanup(n)

SpecPublish == InitPublish /\ [][NextPublish]_vars

\* C16: the store holds none of a run's results or the world map, strategic
\* points and nations of one run together, and a run whose view was
\* unmounted, or whose worker or handler failed, before it published leaves
\* the store as it was: none of its results is ever in the store.
C16_AtomicPublication ==
    /\ store.worldMap = store.strategicPoints /\ store.strategicPoints = store.nations
    /\ \A n \in 1..Len(views) :
           (\/ views[n].cleanedAt \in { "idle", "chunks" }
            \/ views[n].worker = "failed"
            \/ (views[n].handler = "failed" /\ store.worldMap # n)) =>
               store.worldMap # n /\ store.strategicPoints # n /\ store.nations # n

(***************************************************************************)
(* The stages of a run, one step each, in the order of the worker's        *)
(* handler and of MapView's: a stage reads the layers that the stages      *)
(* before it have left, and writes its own.                                *)
(***************************************************************************)

\* generateElevationField and the land-fraction guarantee.
StageElevation ==
    /\ GenerateElevation

\* computeDistanceToWater.
StageWaterDistance ==
    /\ pc = "elevation"
    /\ waterDistance' = computeDistanceToWater(elevation, terrain.width, terrain.height,
                                               terrain.seaLevel)
    /\ pc' = "waterDistance"
    /\ UNCHANGED <<fieldVars, humidity, biomeVars, riverVars, resourceVars, nationVars,
                   runVars>>

\* generateTemperatureField.
StageTemperature ==
    /\ pc = "waterDistance"
    /\ temperature' = generateTemperatureField(TerrainGenerator(request.seed), elevation,
                                               terrain, request.temperature, waterDistance)
    /\ pc' = "temperature"
    /\ UNCHANGED <<fieldVars, humidity, variation, biomes, biomeIds, waterVars, riverVars,
                   resourceVars, nationVars, runVars>>

\* generateHumidityField.
StageHumidity ==
    /\ pc = "temperature"
    /\ baseHumidity' = generateHumidityField(TerrainGenerator(request.seed), elevation,
                                             terrain, request.humidity, waterDistance)
    /\ pc' = "baseHumidity"
    /\ UNCHANGED <<fieldVars, humidity, biomeVars, waterVars, rivers, riverNoise,
                   riverMask, riverWidth, resourceVars, nationVars, runVars>>

\* new RiverGenerator(seed).generate: the mask, the widths and the boosted
\* humidity.
StageRivers ==
    /\ pc = "baseHumidity"
    /\ \E samples \in { riverSamples(RiverGenerator(request.seed), terrain,
                                     request.rivers) } :
       \E riverData \in { generateRivers(elevation, baseHumidity, terrain, request.rivers,
                                         samples) } :
           /\ riverNoise' = samples
           /\ riverMask' = riverData.riverMask
           /\ riverWidth' = riverData.riverWidth
           /\ humidity' = riverData.humidity
    /\ rivers' = request.rivers
    /\ pc' = "rivers"
    /\ UNCHANGED <<fieldVars, biomeVars, waterVars, baseHumidity, resourceVars,
                   nationVars, runVars>>

\* generateBiomeNoiseField.
StageBiomeNoise ==
    /\ pc = "rivers"
    /\ variation' = generateBiomeNoiseField(TerrainGenerator(request.seed),
                                            request.biomeNoise, terrain)
    /\ pc' = "biomeNoise"
    /\ UNCHANGED <<fieldVars, humidity, temperature, biomes, biomeIds, waterVars,
                   riverVars, resourceVars, nationVars, runVars>>

\* buildBiomeMap placed before the river stage, on the humidity of
\* generateHumidityField.
StageBiomes_BeforeRivers ==
    /\ pc = "baseHumidity"
    /\ biomeIds = Unset
    /\ biomeIds' = Layer(buildBiomeMap(elevation, temperature, baseHumidity,
                                       [i \in DOMAIN elevation |-> 0], terrain.width,
                                       terrain.height, terrain.seaLevel, request.biomes))
    /\ biomes' = request.biomes
    /\ UNCHANGED <<pc, fieldVars, humidity, temperature, variation, waterVars, riverVars,
                   resourceVars, nationVars, runVars>>

\* buildBiomeMap.
StageBiomes ==
    /\ pc = "biomeNoise"
    /\ biomeIds' = Layer(buildBiomeMap(elevation, temperature, humidity, variation,
                                       terrain.width, terrain.height, terrain.seaLevel,
                                       request.biomes))
    /\ biomes' = request.biomes
    /\ pc' = "biomes"
    /\ UNCHANGED <<fieldVars, humidity, temperature, variation, waterVars, riverVars,
                   resourceVars, nationVars, runVars>>

\* generateResources.
StageResources ==
    /\ pc = "biomes"
    /\ \E noises \in { resourceSamples(request.seed, terrain.width, terrain.height,
                                       request.resources) } :
       \E made \in { generateResources(elevation, humidity, biomeIds, riverMask,
                                       terrain.width, terrain.height, terrain.seaLevel,
                                       noises.ore, noises.dens, request.resources) } :
           /\ oreNoise' = noises.ore
           /\ densityNoise' = noises.dens
           /\ resourceType' = made.resourceType
           /\ resourceDensity' = made.resourceDensity
    /\ resources' = request.resources
    /\ pc' = "resources"
    /\ UNCHANGED <<fieldVars, humidity, biomeVars, waterVars, riverVars, nationVars,
                   runVars>>

\* detectStrategicPoints, and the response posted.
StageStrategic ==
    /\ pc = "resources"
    /\ \E strategicData \in { detectStrategicPoints(elevation, riverMask, terrain,
                                                    request.biomes, request.strategic) } :
           /\ strategicPoints' = strategicData.points
           /\ valueMap' = strategicData.valueMap
    /\ pc' = "done"
    /\ UNCHANGED <<fieldVars, humidity, biomeVars, waterVars, riverVars, resourceVars,
                   nationVars, request, runs, defaultConfig, detectorVars, storeVars, uiVars>>

NextStages ==
    \/ \E s \in Seeds : handleNewWorld(s)
    \/ PostRequest
    \/ StageElevation
    \/ StageWaterDistance
    \/ StageTemperature
    \/ StageHumidity
    \/ StageRivers
    \/ StageBiomeNoise
    \/ StageBiomes
    \/ StageResources
    \/ StageStrategic
    \/ OnDone
    \/ reset

SpecStages == InitPipeline /\ [][NextStages]_vars

\* A layer with a value for every cell of the map.
whole(layer) ==
    /\ terrain # Unset
    /\ layer # Unset
    /\ DOMAIN layer = 0..(terrain.width * terrain.height - 1)

\* A step that writes a layer: the layer changes, and not to the unset one of
\* the store's reset.
written(before, after) == after # before /\ after # Unset

\* The water distance, a numerator for every cell of the map.
wholeDistance == waterDistance # Unset /\ whole(waterDistance.num)

\* C17: within a run, the step that writes a stage's output finds the whole
\* output of the stages it depends on: the water distance finds the
\* elevation; temperature and humidity find the water distance; the rivers
\* find temperature and humidity; the biome ids find the rivers and are
\* computed from the river-boosted humidity; resources and strategic points
\* find the biome ids; the nations are spawned from the layers of the
\* response, after the worker has posted it.
C17_StagesInOrder ==
    [][/\ written(waterDistance, waterDistance') => whole(elevation)
       /\ written(temperature, temperature') => wholeDistance
       /\ written(baseHumidity, baseHumidity') => wholeDistance
       /\ written(riverMask, riverMask') =>
              whole(temperature) /\ whole(baseHumidity) /\ whole(humidity')
       /\ written(biomeIds, biomeIds') =>
              /\ whole(riverMask) /\ whole(humidity)
              /\ biomeIds' = buildBiomeMap(elevation, temperature, humidity, variation,
                                           terrain.width, terrain.height,
                                           terrain.seaLevel, request.biomes)
       /\ written(resourceType, resourceType') => whole(biomeIds)
       /\ written(valueMap, valueMap') => whole(biomeIds)
       /\ written(ownership, ownership') =>
              /\ pc = "done"
              /\ whole(biomeIds) /\ whole(resourceType) /\ whole(valueMap)]_vars

\* A finished run with rivers, whose boost raised the humidity of a cell, and
\* with nations on the map.
C17_Witness ==
    /\ pc = "playing"
    /\ \E i \in DOMAIN riverMask : riverMask[i] = 1
    /\ \E i \in DOMAIN humidity : humidity[i] > baseHumidity[i]
    /\ Len(nations) > 0
    /\ whole(ownership)

(***************************************************************************)
(* The worker on requests with a noise scale or an octave count that is    *)
(* zero or negative, in the elevation, temperature or humidity block.      *)
(***************************************************************************)

\* The requests: the default one, and it with one parameter replaced.
InvalidRequests ==
    { FieldRequest,
      [FieldRequest EXCEPT !.terrain.scale = 0],
      [FieldRequest EXCEPT !.terrain.scale = -800],
      [FieldRequest EXCEPT !.terrain.octaves = 0],
      [FieldRequest EXCEPT !.terrain.octaves = -1],
      [FieldRequest EXCEPT !.temperature.scale = 0],
      [FieldRequest EXCEPT !.temperature.scale = -2500],
      [FieldRequest EXCEPT !.temperature.octaves = 0],
      [FieldRequest EXCEPT !.temperature.octaves = -1],
      [FieldRequest EXCEPT !.humidity.scale = 0],
      [FieldRequest EXCEPT !.humidity.scale = -4000],
      [FieldRequest EXCEPT !.humidity.octaves = 0],
      [FieldRequest EXCEPT !.humidity.octaves = -1] }

InitInvalid ==
    /\ pc = "requested"
    /\ entropy \in Entropies
    /\ seed \in Seeds
    /\ request \in { [type |-> "generate", seed |-> seed] @@ msg : msg \in InvalidRequests }
    /\ terrain = Unset /\ elevation = Unset /\ humidity = Unset
    /\ BiomeUnset /\ WaterUnset /\ RiverUnset /\ ResourceUnset
    /\ nationsConfig = Unset /\ rng = Unset /\ nameGen = Unset /\ colorGen = Unset
    /\ flagGen = Unset /\ nations = Unset /\ ownerMap = Unset /\ ownership = Unset
    /\ strategicPoints = Unset /\ valueMap = Unset /\ runs = Unset
    /\ defaultConfig = Unset
    /\ scanned = Unset /\ detector = Unset /\ store = Unset /\ views = Unset
    /\ tile = Unset /\ simulation = Unset /\ returned = Unset

SpecInvalid == InitInvalid /\ [][NextFields]_vars

\* A noise block with a scale or an octave count that is zero or negative.
invalidNoise(config) == config.scale <= 0 \/ config.octaves <= 0

\* C18: a request with a zero or negative noise scale or octave count fails
\* before any grid is allocated: the run of such a request has no elevation,
\* water-distance, temperature or humidity field and no river layer.
C18_InvalidFailsFast ==
    (\/ invalidNoise(request.terrain)
     \/ invalidNoise(request.temperature)
     \/ invalidNoise(request.humidity)) =>
        /\ elevation = Unset /\ waterDistance = Unset /\ temperature = Unset
        /\ baseHumidity = Unset /\ humidity = Unset
        /\ riverMask = Unset /\ riverWidth = Unset

(***************************************************************************)
(* WorldMap: the layers of a finished run, read through at(x, y).  The     *)
(* world is the terrain's width, height and sea level with the layers      *)
(* elevation, temperature, humidity, biomeIds, riverMask, resourceType,    *)
(* resourceDensity and ownership.                                          *)
(***************************************************************************)

TileW == 3
TileH == 2

\* null, as at returns it: a record with none of the fields of a TileInfo.
Null == [null |-> TRUE]

\* index with the column as the major coordinate.
index_ColumnMajor(x, y) == x * terrain.height + y

inBounds(x, y) == x >= 0 /\ y >= 0 /\ x < terrain.width /\ y < terrain.height

index(x, y) == y * terrain.width + x

\* WorldMap.at: the TileInfo of (x, y), or null.  resourceLabel, the display
\* text of the resource, is left out.
at(x, y) ==
    IF ~inBounds(x, y) THEN Null
    ELSE LET i == index(x, y)
             elev == elevation[i]
             isWater == elev <= terrain.seaLevel
             w == terrain.width
             nearShore ==
                 /\ ~isWater
                 /\ \/ x > 0 /\ elevation[i - 1] <= terrain.seaLevel
                    \/ x < terrain.width - 1 /\ elevation[i + 1] <= terrain.seaLevel
                    \/ y > 0 /\ elevation[i - w] <= terrain.seaLevel
                    \/ y < terrain.height - 1 /\ elevation[i + w] <= terrain.seaLevel
         IN  [x |-> x, y |-> y, index |-> i, elevation |-> elev,
              temperature |-> temperature[i], humidity |-> humidity[i],
              biomeId |-> biomeIds[i],
              biome |-> IF biomeIds[i] < Len(BIOME_KEYS) THEN BIOME_KEYS[biomeIds[i] + 1]
                        ELSE "ocean",
              isRiver |-> riverMask[i] = 1,
              isWater |-> isWater,
              nearShore |-> nearShore,
              resource |-> resourceType[i],
              resourceDensity |-> resourceDensity[i],
              ownerId |-> IF ownership[i] = 255 THEN -1 ELSE ownership[i]]

\* Worlds of TileW x TileH cells: every cell at the sea level (water) or above
\* it, the owners 0, 254 and 255 (unclaimed) among the cells, a biome id past
\* BIOME_KEYS in the last cell.
InitTile ==
    /\ pc = "playing"
    /\ terrain = [width |-> TileW, height |-> TileH, seaLevel |-> 370]
    /\ elevation \in [0..(TileW * TileH - 1) -> { 370, 500 }]
    /\ temperature = [i \in 0..(TileW * TileH - 1) |-> (i * 137) % 1001]
    /\ humidity = [i \in 0..(TileW * TileH - 1) |-> (i * 313 + 50) % 1001]
    /\ biomeIds = [i \in 0..(TileW * TileH - 1) |->
                      IF i = TileW * TileH - 1 THEN 200 ELSE (i * 7) % 26]
    /\ riverMask = [i \in 0..(TileW * TileH - 1) |-> i % 2]
    /\ resourceType = [i \in 0..(TileW * TileH - 1) |-> i % 5]
    /\ resourceDensity = [i \in 0..(TileW * TileH - 1) |-> (i * 90) % 256]
    /\ \E first \in { 0, 254, 255 } :
           ownership = [i \in 0..(TileW * TileH - 1) |->
                           IF i % 3 = 0 THEN first ELSE IF i % 3 = 1 THEN 255 ELSE i]
    /\ tile = Unset
    /\ variation = Unset /\ biomes = Unset
    /\ WaterUnset
    /\ baseHumidity = Unset /\ rivers = Unset /\ riverNoise = Unset /\ riverWidth = Unset
    /\ resources = Unset /\ oreNoise = Unset /\ densityNoise = Unset
    /\ seed = Unset /\ entropy = Unset /\ nationsConfig = Unset
    /\ rng = Unset /\ nameGen = Unset /\ colorGen = Unset /\ flagGen = Unset
    /\ nations = Unset /\ ownerMap = Unset
    /\ request = Unset /\ strategicPoints = Unset /\ valueMap = Unset
    /\ runs = Unset /\ defaultConfig = Unset
    /\ scanned = Unset /\ detector = Unset /\ store = Unset /\ views = Unset
    /\ simulation = Unset /\ returned = Unset

\* A call of world.at(x, y), the first on this world: a call leaves the world
\* as it found it, so a later one has nothing else to read.
At(x, y) ==
    /\ pc = "playing"
    /\ tile = Unset
    /\ tile' = [x |-> x, y |-> y, info |-> at(x, y)]
    /\ UNCHANGED <<pc, fieldVars, humidity, biomeVars, waterVars, riverVars, resourceVars,
                   nationVars, request, strategicPoints, valueMap, runs, defaultConfig,
                   detectorVars, storeVars, simulation, returned>>

NextTile == \E x \in (-1)..TileW, y \in (-1)..TileH : At(x, y)

SpecTile == InitTile /\ [][NextTile]_vars

C22_NearShore ==
    (tile # Unset /\ tile.info # Null) =>
        (tile.info.nearShore <=>
            \E d \in { <<-1, 0>>, <<1, 0>>, <<0, -1>>, <<0, 1>> } :
                /\ 0 <= tile.x + d[1] /\ tile.x + d[1] < terrain.width
                /\ 0 <= tile.y + d[2] /\ tile.y + d[2] < terrain.height
                /\ elevation[(tile.y + d[2]) * terrain.width + tile.x + d[1]]
                       <= terrain.seaLevel)

(***************************************************************************)
(* The order and the end of the greedy selection of pickSpawnPoints, read  *)
(* from the nations of a finished spawn: nations[k] is the k-th accepted   *)
(* candidate.                                                              *)
(***************************************************************************)

\* The candidates of the current map, as findCandidates returns them.
poolOf == findCandidates(elevation, biomeIds, riverMask, terrain)

\* Cells a and b are closer than minSpacing.
closer(a, b) ==
    LET dx == Col(a) - Col(b)
        dy == Row(a) - Row(b)
    IN  dx * dx + dy * dy < nationsConfig.minSpacing * nationsConfig.minSpacing

\* C23: the candidates are considered in non-increasing score order (the
\* capitals' scores do not rise along the nations, and a candidate that
\* scores above a capital and is no capital itself was refused before: it is
\* closer than minSpacing to an earlier capital), at most count nations are
\* returned, and when fewer are, every candidate that is no capital is closer
\* than minSpacing to some capital.
C23_GreedyByScore ==
    pc = "playing" =>
        \E pool \in { poolOf } :
            LET scoreOf(cell) ==
                    (CHOOSE k \in 1..Len(pool) : pool[k].index = cell)
                isCapital(cell) == \E n \in NationIndexes : nations[n].capital = cell
            IN  /\ Len(nations) <= nationsConfig.count
                /\ \A n \in NationIndexes :
                       \E k \in 1..Len(pool) : pool[k].index = nations[n].capital
                /\ \A n, m \in NationIndexes :
                       n < m => pool[scoreOf(nations[n].capital)].score
                                    >= pool[scoreOf(nations[m].capital)].score
                /\ \A k \in 1..Len(pool), m \in NationIndexes :
                       (/\ ~isCapital(pool[k].index)
                        /\ pool[k].score > pool[scoreOf(nations[m].capital)].score) =>
                           \E n \in 1..(m - 1) : closer(pool[k].index, nations[n].capital)
                /\ Len(nations) < nationsConfig.count =>
                       \A k \in 1..Len(pool) :
                           ~isCapital(pool[k].index) =>
                               \E n \in NationIndexes :
                                   closer(pool[k].index, nations[n].capital)

\* Fewer nations than asked for because the spacing refused a candidate, on a
\* map whose candidates differ in score.
C23_Witness ==
    /\ pc = "playing"
    /\ 0 < Len(nations) /\ Len(nations) < nationsConfig.count
    /\ Len(nations) < Len(poolOf)
    /\ \E k, l \in 1..Len(poolOf) : poolOf[k].score # poolOf[l].score
    /\ \E n, m \in NationIndexes :
           poolOf[CHOOSE k \in 1..Len(poolOf) : poolOf[k].index = nations[n].capital].score
               # poolOf[CHOOSE k \in 1..Len(poolOf) :
                           poolOf[k].index = nations[m].capital].score

(***************************************************************************)
(* The three generators of a nation's identity on their own: one instance  *)
(* of each, called again and again.  With the entropy Repeating(key) the   *)
(* generator of that key returns 0 at every call: every attempt of         *)
(* NameGenerator composes the same name, which is what 50 collisions in a  *)
(* row are, and every attempt of ColorGenerator draws the same saturation  *)
(* and lightness.  With the entropy 49 the first flag of seed 1 draws the   *)
(* background hue 325.44 and the accent hue 9.72.                          *)
(***************************************************************************)

MaxNames == 3
MaxColors == 9
MaxFlags == 3

Repeating(key) == (1000 - ((KeyCode(key) * 37) % 1000)) % 1000

InitGenerators ==
    /\ pc = "playing"
    /\ seed \in Seeds
    /\ entropy \in Entropies \cup { Repeating(<<seed, "names">>),
                                    Repeating(<<seed, "colors">>), 49 }
    /\ nameGen = NameGenerator(seed)
    /\ colorGen = ColorGenerator(seed)
    /\ flagGen = FlagGenerator(seed)
    /\ returned = [names |-> <<>>, colors |-> <<>>, flags |-> <<>>]
    /\ terrain = Unset /\ elevation = Unset /\ humidity = Unset
    /\ BiomeUnset /\ WaterUnset /\ RiverUnset /\ ResourceUnset
    /\ nationsConfig = Unset /\ rng = Unset
    /\ nations = Unset /\ ownerMap = Unset /\ ownership = Unset
    /\ request = Unset /\ strategicPoints = Unset /\ valueMap = Unset
    /\ runs = Unset /\ defaultConfig = Unset
    /\ scanned = Unset /\ detector = Unset /\ store = Unset /\ views = Unset
    /\ tile = Unset /\ simulation = Unset

\* nameGen.generate()
GenerateName ==
    /\ Len(returned.names) < MaxNames
    /\ \E made \in { generateName(nameGen) } :
           /\ nameGen' = made.gen
           /\ returned' = [returned EXCEPT !.names = Append(@, made.name)]
    /\ UNCHANGED <<pc, fieldVars, humidity, biomeVars, waterVars, riverVars, resourceVars,
                   seed, entropy, nationsConfig, rng, colorGen, flagGen, nations,
                   ownerMap, ownership, request, strategicPoints, valueMap, runs,
                   defaultConfig, detectorVars, storeVars, tile, simulation>>

\* colorGen.generate()
GenerateColor ==
    /\ Len(returned.colors) < MaxColors
    /\ \E made \in { generateColor(colorGen) } :
           /\ colorGen' = made.gen
           /\ returned' = [returned EXCEPT !.colors = Append(@, made.color)]
    /\ UNCHANGED <<pc, fieldVars, humidity, biomeVars, waterVars, riverVars, resourceVars,
                   seed, entropy, nationsConfig, rng, nameGen, flagGen, nations,
                   ownerMap, ownership, request, strategicPoints, valueMap, runs,
                   defaultConfig, detectorVars, storeVars, tile, simulation>>

\* flagGen.generate()
GenerateFlag ==
    /\ Len(returned.flags) < MaxFlags
    /\ \E made \in { generateFlag(flagGen) } :
           /\ flagGen' = made.gen
           /\ returned' = [returned EXCEPT !.flags = Append(@, made.flag)]
    /\ UNCHANGED <<pc, fieldVars, humidity, biomeVars, waterVars, riverVars, resourceVars,
                   seed, entropy, nationsConfig, rng, nameGen, colorGen, nations,
                   ownerMap, ownership, request, strategicPoints, valueMap, runs,
                   defaultConfig, detectorVars, storeVars, tile, simulation>>

NextGenerators == GenerateName \/ GenerateColor \/ GenerateFlag

SpecGenerators == InitGenerators /\ [][NextGenerators]_vars

\* C24: the names one NameGenerator has returned are pairwise distinct, the
\* numbered names of the fallback included, and each was returned by a call
\* of at most 50 attempts: the set of used names holds one name per call.
C24_NamesDistinct ==
    /\ \A j, k \in 1..Len(returned.names) :
           j # k => returned.names[j] # returned.names[k]
    /\ nameGen.usedNames = { returned.names[k] : k \in 1..Len(returned.names) }
    /\ nameGen.rng.calls <= 5 * 50 * Len(returned.names)

\* A composed name, then the numbered names of two calls whose 50 attempts
\* all collided.
C24_Witness ==
    /\ Len(returned.names) = 3
    /\ returned.names[2] = "Nation-2"
    /\ returned.names[3] = "Nation-3"
    /\ returned.names[1] # "Nation-1"

C26_AccentHueApart ==
    \A k \in 1..Len(returned.flags) :
        LET apart == Abs(returned.flags[k].accent[1] - returned.flags[k].background[1])
        IN  Min(apart, 360000 - apart) >= 60000

(***************************************************************************)
(* The land-fraction guarantee with and without minLandRatio, for the      *)
(* default sea level and for one under the safety minimum of 0.05.         *)
(***************************************************************************)

InitSeaLevel ==
    \E columns \in [0..(LandW - 1) -> { 20, 40, 200, 500 }],
       seaLevel \in { 30, 370 },
       ratio \in { [minLandRatio |-> 0], [minLandRatio |-> 250],
                   [minLandRatio |-> 1000], <<>> } :
        /\ pc = "elevation"
        /\ request = [terrain |-> [width |-> LandW, height |-> LandH,
                                   seaLevel |-> seaLevel]] @@ ratio
        /\ elevation = [i \in 0..(LandW * LandH - 1) |-> columns[i % LandW]]
        /\ terrain = Unset /\ humidity = Unset
        /\ BiomeUnset /\ WaterUnset /\ RiverUnset /\ ResourceUnset /\ NationUnset
        /\ strategicPoints = Unset /\ valueMap = Unset /\ runs = Unset
        /\ defaultConfig = Unset
        /\ scanned = Unset /\ detector = Unset /\ store = Unset /\ views = Unset
        /\ tile = Unset /\ simulation = Unset /\ returned = Unset

SpecSeaLevel == InitSeaLevel /\ [][NextLand]_vars

\* C27: the effective sea level is never above the configured one, and it is
\* the configured one when minLandRatio is absent or 0 or when the land
\* fraction already meets it.
C27_SeaLevelNotRaised ==
    pc = "adjusted" =>
        /\ terrain.seaLevel <= request.terrain.seaLevel
        /\ (\/ "minLandRatio" \notin DOMAIN request
            \/ request.minLandRatio = 0
            \/ landCells(request.terrain.seaLevel) * 1000
                   >= request.minLandRatio * LandW * LandH) =>
               terrain.seaLevel = request.terrain.seaLevel

(***************************************************************************)
(* Simulation: the render loop.  The browser holds the callbacks that      *)
(* requestAnimationFrame and setTimeout were given and calls each once,    *)
(* later; frames and timers count the ones it still holds.                 *)
(***************************************************************************)

MaxStarts == 3
MaxRendered == 4

\* new Simulation(renderer, onFps), with the calls of start and of
\* renderer.render counted.
InitSimulation ==
    /\ pc = "playing"
    /\ simulation = [running |-> FALSE, frames |-> 0, timers |-> 0, started |-> 0,
                     rendered |-> 0]
    /\ terrain = Unset /\ elevation = Unset /\ humidity = Unset
    /\ BiomeUnset /\ WaterUnset /\ RiverUnset /\ ResourceUnset /\ NationUnset
    /\ request = Unset /\ strategicPoints = Unset /\ valueMap = Unset
    /\ runs = Unset /\ defaultConfig = Unset
    /\ scanned = Unset /\ detector = Unset /\ store = Unset /\ views = Unset
    /\ tile = Unset /\ returned = Unset

\* Simulation.start
start ==
    /\ simulation.started < MaxStarts
    /\ simulation' =
           IF simulation.running THEN [simulation EXCEPT !.started = @ + 1]
           ELSE [simulation EXCEPT !.running = TRUE, !.frames = @ + 1, !.started = @ + 1]
    /\ UNCHANGED <<pc, worldVars, storeVars, tile, returned>>

\* Simulation.stop
stop ==
    /\ simulation' = [simulation EXCEPT !.running = FALSE]
    /\ UNCHANGED <<pc, worldVars, storeVars, tile, returned>>

\* Simulation.tick, called by the browser for a pending animation frame; the
\* time since the last frame makes the delay positive (late) or not.
tick(late) ==
    /\ simulation.frames > 0
    /\ simulation.running => simulation.rendered < MaxRendered
    /\ simulation' =
           IF ~simulation.running THEN [simulation EXCEPT !.frames = @ - 1]
           ELSE IF late
           THEN [simulation EXCEPT !.frames = @ - 1, !.timers = @ + 1, !.rendered = @ + 1]
           ELSE [simulation EXCEPT !.rendered = @ + 1]
    /\ UNCHANGED <<pc, worldVars, storeVars, tile, returned>>

\* The callback of tick's setTimeout: requestAnimationFrame(this.tick).
timeout ==
    /\ simulation.timers > 0
    /\ simulation' = [simulation EXCEPT !.timers = @ - 1, !.frames = @ + 1]
    /\ UNCHANGED <<pc, worldVars, storeVars, tile, returned>>

NextSimulation ==
    \/ start
    \/ stop
    \/ \E late \in BOOLEAN : tick(late)
    \/ timeout

SpecSimulation == InitSimulation /\ [][NextSimulation]_vars

\* C28: at most one chain of tick callbacks is ever pending (one animation
\* frame or one timer), and none is added while the simulation is stopped;
\* a tick that finds the simulation stopped renders nothing and schedules
\* nothing.
C28_OneChain ==
    /\ [](simulation.frames + simulation.timers <= 1)
    /\ [][~simulation.running /\ simulation.frames' < simulation.frames =>
              /\ simulation.rendered' = simulation.rendered
              /\ simulation.timers' = simulation.timers]_vars

(***************************************************************************)
(* Reachability of the biome keys: determineBiome applied to every probe   *)
(* of SpecBiome under defaultConfig.terrain.biomes.                        *)
(***************************************************************************)

\* The sea levels of the scenarios that use the default thresholds.
DefaultSeaLevels == { sc.seaLevel : sc \in { s \in BiomeScenarios : s.config = DefaultBiomes } }

\* Some probe (elevation, temperature, humidity, jitter, seaLevel) makes
\* determineBiome return the key under the thresholds of config.
returnedForSomeProbe(key, config) ==
    \E sl \in DefaultSeaLevels, e \in ElevationProbes, t \in TemperatureProbes,
       h \in HumidityProbes, v \in VariationProbes :
        determineBiome(e, t, h, v, sl, config) = key

\* C29: each of the 26 keys of BIOME_KEYS, glacier included, is returned by
\* determineBiome for some input (elevation, temperature, humidity, jitter,
\* seaLevel) under the default biome thresholds.
C29_EveryBiomeReachable ==
    biomes = DefaultBiomes =>
        \A k \in 1..Len(BIOME_KEYS) : returnedForSomeProbe(BIOME_KEYS[k], biomes)

(***************************************************************************)
(* Capitals and provinces of the nations spawnNations returns.             *)
(***************************************************************************)

\* C30: every nation returned by spawnNations owns its capital: the capital
\* cell is in the nation's province set (and the owner map names the nation
\* there), for every minSpacing >= 0 and however many nations were made
\* before it; the capital's biome is one of the desirable ones, none of which
\* claimTerritory skips.
C30_CapitalOwned ==
    pc = "playing" =>
        \A k \in NationIndexes :
            /\ nations[k].capital \in nations[k].provinces
            /\ ownerMap[nations[k].capital] = nations[k].id
            /\ BIOME_DESIRABILITY(biomeIds[nations[k].capital]) >= 100
            /\ biomeIds[nations[k].capital] \notin 0..4

\* With no spacing at all, a later nation's capital is only 4 cells from an
\* earlier nation's capital, its square touches the earlier one's, and it
\* still holds its own capital.
C30_Witness ==
    /\ pc = "playing"
    /\ nationsConfig.minSpacing = 0
    /\ \E j \in NationIndexes, k \in NationIndexes :
          /\ j < k
          /\ Abs(Col(nations[j].capital) - Col(nations[k].capital))
               + Abs(Row(nations[j].capital) - Row(nations[k].capital)) = 4
          /\ nations[k].capital \in nations[k].provinces
          /\ Cardinality(nations[k].provinces) < 25

=============================================================================
